---- MODULE Spec2Model ----
(***************************************************************************)
(* The agent tool-calling loop of vahstack-web: the streaming runLoop of   *)
(* src/vahstack-web/src/agent/loop.ts (lines 340-721) with History         *)
(* (agent/history.ts), Usage (agent/example.ts, class Usage) and the       *)
(* tool-call parser parseMessage (agent/tools/glob.ts, lines 247-435).     *)
(*                                                                         *)
(* Text is a sequence of tokens.  Each of the six literal tags is one      *)
(* token; every other token is one character.                              *)
(***************************************************************************)
EXTENDS Integers, Sequences, FiniteSets, TLC

(***************************************************************************)
(* Bounds of the model.                                                    *)
(***************************************************************************)
\* largest value of options.maxTurns that is tried
MaxTurnsOpt == 2
\* stream lines (frames) delivered by the endpoint over one whole run
MaxFrames == 2
\* complete lines one reader.read() chunk may carry
MaxLinesPerChunk == 2

(***************************************************************************)
(* Tags of the embedded tool-call format.                                  *)
(***************************************************************************)
TOOL_USE_OPEN == "<use_tool>"
TOOL_USE_CLOSE == "</use_tool>"
TOOL_NAME_OPEN == "<tool_name>"
TOOL_NAME_CLOSE == "</tool_name>"
ARGUMENTS_OPEN == "<arguments>"
ARGUMENTS_CLOSE == "</arguments>"

WS == " "
QUOTE == "q"
Letters == {"a", "b", "m", "x"}

(***************************************************************************)
(* String helpers on token sequences.                                      *)
(***************************************************************************)
RECURSIVE TrimLeft(_)
TrimLeft(s) == IF s # <<>> /\ Head(s) = WS THEN TrimLeft(Tail(s)) ELSE s

RECURSIVE TrimRight(_)
TrimRight(s) ==
  IF s # <<>> /\ s[Len(s)] = WS THEN TrimRight(SubSeq(s, 1, Len(s) - 1)) ELSE s

Trim_KeepsBlanks(s) == s

\* String.prototype.trim
Trim(s) == TrimRight(TrimLeft(s))

\* text.slice(from, to) with 1-based from and inclusive to
Slice(s, from, to) == IF to < from THEN <<>> ELSE SubSeq(s, from, to)

(***************************************************************************)
(* JSON.parse on the token texts the model uses: an empty object, an       *)
(* object with one string member, or a string.                             *)
(***************************************************************************)
\* what may stand between the quotes of a JSON string: letters, blanks, and
\* the text of any tag
Tags == {TOOL_USE_OPEN, TOOL_USE_CLOSE, TOOL_NAME_OPEN, TOOL_NAME_CLOSE,
         ARGUMENTS_OPEN, ARGUMENTS_CLOSE}
\* the words and signs of the command lines the model uses
CommandWords == {"rm", "-rf", "-r", "sudo", "$(", ";", "/"}

StringChars == Letters \cup {WS} \cup Tags \cup CommandWords

IsJsonString(s) ==
  /\ Len(s) >= 2
  /\ s[1] = QUOTE
  /\ s[Len(s)] = QUOTE
  /\ \A k \in 2..(Len(s) - 1) : s[k] \in StringChars

IsJsonObject(s) ==
  /\ Len(s) >= 2
  /\ s[1] = "{"
  /\ s[Len(s)] = "}"
  /\ \/ Len(s) = 2
     \/ \E k \in 2..(Len(s) - 1) :
          /\ s[k] = ":"
          /\ IsJsonString(Slice(s, 2, k - 1))
          /\ IsJsonString(Slice(s, k + 1, Len(s) - 1))

\* the text without the blanks JSON.parse skips: those outside the strings
RECURSIVE CompactFrom(_, _, _)
CompactFrom(s, i, inString) ==
  IF i > Len(s) THEN <<>>
  ELSE IF s[i] = QUOTE THEN <<QUOTE>> \o CompactFrom(s, i + 1, ~inString)
  ELSE IF s[i] = WS /\ ~inString THEN CompactFrom(s, i + 1, inString)
  ELSE <<s[i]>> \o CompactFrom(s, i + 1, inString)

Compact(s) == CompactFrom(s, 1, FALSE)

JsonParses(s) == IsJsonObject(Compact(s)) \/ IsJsonString(Compact(s))

QuoteCount(s) == Cardinality({k \in 1..Len(s) : s[k] = QUOTE})

repairJson_NeverClosesQuote(jsonString) ==
  LET cleaned0 == Trim(jsonString)
      cleaned1 == IF cleaned0 = <<>> \/ cleaned0[1] # "{"
                  THEN <<"{">> \o cleaned0 ELSE cleaned0
  IN IF cleaned1[Len(cleaned1)] # "}" THEN cleaned1 \o <<"}">> ELSE cleaned1

\* repairJson
repairJson(jsonString) ==
  LET cleaned0 == Trim(jsonString)
      cleaned1 == IF cleaned0 = <<>> \/ cleaned0[1] # "{"
                  THEN <<"{">> \o cleaned0 ELSE cleaned0
  IN IF cleaned1[Len(cleaned1)] # "}"
     THEN (IF QuoteCount(cleaned1) % 2 # 0
           THEN cleaned1 \o <<QUOTE>> ELSE cleaned1) \o <<"}">>
     ELSE cleaned1

\* params of a tool_use: err = "" for a parsed value (val its JSON text
\* without insignificant blanks), otherwise the {_error, _raw} placeholder
EmptyParams == [err |-> "", val |-> <<"{", "}">>]

ParseArguments_SwallowsFailure(value, errorText) ==
  LET t == Trim(value)
  IN IF t = <<>> THEN EmptyParams
     ELSE IF JsonParses(t) THEN [err |-> "", val |-> Compact(t)]
     ELSE IF JsonParses(repairJson(t)) THEN [err |-> "", val |-> Compact(repairJson(t))]
     ELSE EmptyParams

\* the try / repair / placeholder cascade applied to an arguments value
ParseArguments(value, errorText) ==
  LET t == Trim(value)
  IN IF t = <<>> THEN EmptyParams
     ELSE IF JsonParses(t) THEN [err |-> "", val |-> Compact(t)]
     ELSE IF JsonParses(repairJson(t)) THEN [err |-> "", val |-> Compact(repairJson(t))]
     ELSE [err |-> errorText, val |-> t]

(***************************************************************************)
(* parseMessage: one left-to-right scan.                                   *)
(***************************************************************************)
\* a text block that keeps the partial flag it was created with
TextBlock_CreatedPartial(content, partial) ==
  [type |-> "text", content |-> content, name |-> <<>>,
   params |-> EmptyParams, callId |-> 0, partial |-> TRUE]

\* a text block as it is pushed
TextBlock(content, partial) ==
  [type |-> "text", content |-> content, name |-> <<>>,
   params |-> EmptyParams, callId |-> 0, partial |-> partial]

ToolUseBlock(name, params, partial) ==
  [type |-> "tool_use", content |-> <<>>, name |-> name,
   params |-> params, callId |-> 0, partial |-> partial]

ScanInit ==
  [blocks |-> <<>>, textStart |-> 1, hasText |-> FALSE, inTool |-> FALSE,
   toolUse |-> ToolUseBlock(<<>>, EmptyParams, TRUE),
   paramName |-> "", valueStart |-> 1]

\* the body of the for loop at position i
ScanStep(text, i, st) ==
  IF st.inTool /\ st.paramName # ""
  THEN IF st.paramName = "tool_name" /\ text[i] = TOOL_NAME_CLOSE
       THEN [st EXCEPT !.toolUse.name = Trim(Slice(text, st.valueStart, i - 1)),
                       !.paramName = ""]
       ELSE IF st.paramName = "arguments" /\ text[i] = ARGUMENTS_CLOSE
       THEN [st EXCEPT !.toolUse.params =
                          ParseArguments(Slice(text, st.valueStart, i - 1),
                                         "Invalid JSON"),
                       !.paramName = ""]
       ELSE st
  ELSE IF st.inTool
  THEN IF text[i] = TOOL_NAME_OPEN
       THEN [st EXCEPT !.paramName = "tool_name", !.valueStart = i + 1]
       ELSE IF text[i] = ARGUMENTS_OPEN
       THEN [st EXCEPT !.paramName = "arguments", !.valueStart = i + 1]
       ELSE IF text[i] = TOOL_USE_CLOSE
       THEN [st EXCEPT !.blocks = Append(st.blocks,
                                         [st.toolUse EXCEPT !.partial = FALSE]),
                       !.inTool = FALSE,
                       !.textStart = i + 1]
       ELSE st
  ELSE IF text[i] = TOOL_USE_OPEN
       THEN LET content == Trim(Slice(text, st.textStart, i - 1))
            IN [st EXCEPT !.blocks = IF Len(content) > 0
                                     THEN Append(st.blocks, TextBlock(content, FALSE))
                                     ELSE st.blocks,
                          !.hasText = FALSE,
                          !.inTool = TRUE,
                          !.toolUse = ToolUseBlock(<<>>, EmptyParams, TRUE)]
       ELSE [st EXCEPT !.hasText = TRUE]

RECURSIVE Scan(_, _, _)
Scan(text, i, st) ==
  IF i > Len(text) THEN st ELSE Scan(text, i + 1, ScanStep(text, i, st))

ScanFinish_ClosesTrailingText(text, st) ==
  IF st.inTool THEN Append(st.blocks, st.toolUse)
  ELSE IF st.hasText /\ Len(Trim(Slice(text, st.textStart, Len(text)))) > 0
  THEN Append(st.blocks, TextBlock(Trim(Slice(text, st.textStart, Len(text))), FALSE))
  ELSE st.blocks

ScanFinish_DropsOpenToolUse(text, st) ==
  IF st.inTool THEN st.blocks
  ELSE IF st.hasText /\ Len(Trim(Slice(text, st.textStart, Len(text)))) > 0
  THEN Append(st.blocks, TextBlock(Trim(Slice(text, st.textStart, Len(text))), TRUE))
  ELSE st.blocks

\* the handling of an unfinished block after the loop
ScanFinish(text, st) ==
  IF st.inTool
  THEN LET value == Slice(text, st.valueStart, Len(text))
           tu == IF st.paramName = "tool_name"
                 THEN [st.toolUse EXCEPT !.name = Trim(value)]
                 ELSE IF st.paramName = "arguments"
                 THEN [st.toolUse EXCEPT
                         !.params = ParseArguments(value, "Incomplete JSON")]
                 ELSE st.toolUse
       IN Append(st.blocks, tu)
  ELSE IF st.hasText
  THEN LET content == Trim(Slice(text, st.textStart, Len(text)))
       IN IF Len(content) > 0
          THEN Append(st.blocks, TextBlock(content, TRUE))
          ELSE st.blocks
  ELSE st.blocks

parseMessage(text) == ScanFinish(text, Scan(text, 1, ScanInit))

(***************************************************************************)
(* Usage.                                                                  *)
(***************************************************************************)
\* Usage.empty() / the fields after reset()
UsageEmpty == [promptTokens |-> 0, completionTokens |-> 0, totalTokens |-> 0]

\* a field of the endpoint's usage object: a number, or absent
Num(n) == [k |-> "num", v |-> n]
Absent == [k |-> "absent", v |-> 0]

\* Usage.fromApiResponse
UsageFromApiResponse(usage) ==
  LET promptTokens == IF usage.prompt_tokens.k = "num"
                      THEN usage.prompt_tokens.v ELSE 0
      completionTokens == IF usage.completion_tokens.k = "num"
                          THEN usage.completion_tokens.v ELSE 0
  IN [promptTokens |-> promptTokens,
      completionTokens |-> completionTokens,
      totalTokens |-> IF usage.total_tokens.k = "num"
                      THEN usage.total_tokens.v
                      ELSE promptTokens + completionTokens]

\* Usage.add: the fields of this after this.add(other)
UsageAdd(this, other) ==
  [promptTokens |-> this.promptTokens + other.promptTokens,
   completionTokens |-> this.completionTokens + other.completionTokens,
   totalTokens |-> this.totalTokens + other.totalTokens]

(***************************************************************************)
(* History.                                                                *)
(***************************************************************************)
NoResult == [llmContent |-> "", isError |-> FALSE]
NoMsgUsage == [has |-> FALSE, input_tokens |-> 0, output_tokens |-> 0]

TextItem(t) ==
  [type |-> "text", text |-> t, id |-> 0, name |-> <<>>,
   input |-> EmptyParams, result |-> NoResult]

ToolUseItem(id, name, input) ==
  [type |-> "tool_use", text |-> <<>>, id |-> id, name |-> name,
   input |-> input, result |-> NoResult]

ToolResultItem(id, name, input, res) ==
  [type |-> "tool_result", text |-> <<>>, id |-> id, name |-> name,
   input |-> input, result |-> res]

\* a message as handed to addMessage: no uuid, no timestamp
NewMessage(role, content, usage) ==
  [role |-> role, content |-> content, uuid |-> 0, timestamp |-> "",
   usage |-> usage]

\* a log that puts the new message in front
AddMessage_Replacing(messages, message, uuid) ==
  <<[message EXCEPT !.uuid = IF message.uuid = 0 THEN uuid ELSE @,
                    !.timestamp = IF message.timestamp = "" THEN "now" ELSE @]>>

AddMessage_InFront(messages, message, uuid) ==
  <<[message EXCEPT !.uuid = IF message.uuid = 0 THEN uuid ELSE @,
                    !.timestamp = IF message.timestamp = "" THEN "now" ELSE @]>>
    \o messages

\* History.addMessage up to the push: the stored list afterwards
AddMessage(messages, message, uuid) ==
  Append(messages,
         [message EXCEPT !.uuid = IF message.uuid = 0 THEN uuid ELSE @,
                         !.timestamp = IF message.timestamp = "" THEN "now" ELSE @])

\* JSON.stringify(value, null, 2) of a parsed value: {} stays as it is, an
\* object with one member goes on three lines with two blanks of indent
JsonStringify(val) ==
  IF Len(val) > 2 /\ IsJsonObject(val)
  THEN LET k == CHOOSE k \in 2..(Len(val) - 1) :
                  /\ val[k] = ":"
                  /\ IsJsonString(Slice(val, 2, k - 1))
                  /\ IsJsonString(Slice(val, k + 1, Len(val) - 1))
       IN <<"{", WS, WS, WS>> \o Slice(val, 2, k - 1) \o <<":", WS>>
            \o Slice(val, k + 1, Len(val) - 1) \o <<WS, "}">>
  ELSE val

\* the characters of a string as JSON.stringify writes them between quotes
Escaped(s) == [i \in 1..Len(s) |-> IF s[i] = QUOTE THEN "\\q" ELSE s[i]]

\* JSON.stringify(item.input, null, 2)
StringifyParams(params) ==
  IF params.err = "" THEN JsonStringify(params.val)
  ELSE <<"{", WS, WS, WS, QUOTE, "_error", QUOTE, ":", WS, QUOTE, params.err, QUOTE,
         ",", WS, WS, WS, QUOTE, "_raw", QUOTE, ":", WS, QUOTE>>
         \o Escaped(params.val) \o <<QUOTE, WS, "}">>

\* the text toApiMessages writes for a tool_use item
ToolUseText(name, input) ==
  <<TOOL_USE_OPEN, WS, TOOL_NAME_OPEN>> \o name
    \o <<TOOL_NAME_CLOSE, WS, ARGUMENTS_OPEN, WS>> \o StringifyParams(input)
    \o <<WS, ARGUMENTS_CLOSE, WS, TOOL_USE_CLOSE>>

\* `Tool result: ${JSON.stringify(item.result)}`
ToolResultText(res) ==
  <<"Tool result:", WS, "{", QUOTE, "llmContent", QUOTE, ":", QUOTE,
    res.llmContent, QUOTE, ",", QUOTE, "isError", QUOTE, ":",
    IF res.isError THEN "true" ELSE "false", "}">>

ItemText(item) ==
  IF item.type = "text" THEN item.text
  ELSE IF item.type = "tool_use" THEN ToolUseText(item.name, item.input)
  ELSE IF item.type = "tool_result" THEN ToolResultText(item.result)
  ELSE <<>>

\* texts.join('\n')
RECURSIVE JoinLines(_)
JoinLines(texts) ==
  IF texts = <<>> THEN <<>>
  ELSE IF Len(texts) = 1 THEN texts[1]
  ELSE texts[1] \o <<WS>> \o JoinLines(Tail(texts))

ApiContent(message) ==
  Trim(JoinLines([i \in 1..Len(message.content) |-> ItemText(message.content[i])]))

\* toApiMessages leaving out the messages whose content comes out empty
toApiMessages_SkipsEmpty(messages) ==
  SelectSeq([i \in 1..Len(messages) |->
               [role |-> messages[i].role, content |-> ApiContent(messages[i])]],
            LAMBDA m : m.content # <<>>)

\* History.toApiMessages
toApiMessages(messages) ==
  [i \in 1..Len(messages) |->
     [role |-> messages[i].role, content |-> ApiContent(messages[i])]]

\* the history built from a string input
InitialMessages ==
  << [role |-> "user", content |-> <<TextItem(<<"x">>)>>, uuid |-> 1,
      timestamp |-> "now", usage |-> NoMsgUsage] >>

(***************************************************************************)
(* Pieces of runLoop.                                                      *)
(***************************************************************************)
\* options.tools: the names that have a function
Tools == {<<"a">>}

\* a budget check that is late by one turn
TurnBudgetExceeded_LateByOne(count, limit) == count > limit + 1

\* turnsCount > maxTurns
TurnBudgetExceeded(count, limit) == count > limit

\* options.signal?.aborted && !abortController.signal.aborted, top of the loop
CanceledAtTurnStart(signalAborted, ctrlAborted) == signalAborted /\ ~ctrlAborted

\* a chunk loop that does not look at the signal
CanceledAfterChunk_Unchecked(signalAborted) == FALSE

\* options.signal?.aborted, checked on every chunk read
CanceledAfterChunk(signalAborted) == signalAborted

\* options.signal?.aborted, checked once the stream has ended
CanceledAfterStream(signalAborted) == signalAborted

RECURSIVE FindFirst(_, _, _)
FindFirst(blocks, type, i) ==
  IF i > Len(blocks) THEN 0
  ELSE IF blocks[i].type = type THEN i
  ELSE FindFirst(blocks, type, i + 1)

\* parsed.find(item => item.type === 'text'): its index, 0 if none
FirstText(blocks) == FindFirst(blocks, "text", 1)

\* acting on the last tool_use block instead of the first
FirstToolUse_Last(blocks) ==
  IF \E i \in 1..Len(blocks) : blocks[i].type = "tool_use"
  THEN CHOOSE i \in 1..Len(blocks) :
         /\ blocks[i].type = "tool_use"
         /\ \A j \in (i + 1)..Len(blocks) : blocks[j].type # "tool_use"
  ELSE 0

\* acting only on a tool_use block that was closed
FirstToolUse_CompleteOnly(blocks) ==
  IF \E i \in 1..Len(blocks) : blocks[i].type = "tool_use" /\ ~blocks[i].partial
  THEN CHOOSE i \in 1..Len(blocks) :
         /\ blocks[i].type = "tool_use" /\ ~blocks[i].partial
         /\ \A j \in 1..(i - 1) : ~(blocks[j].type = "tool_use" /\ ~blocks[j].partial)
  ELSE 0

\* parsed.find(item => item.type === 'tool_use'): its index, 0 if none
FirstToolUse(blocks) == FindFirst(blocks, "tool_use", 1)

ToolUseCount(blocks) == Cardinality({i \in 1..Len(blocks) : blocks[i].type = "tool_use"})

\* only the first tool_use block gets a callId
AssignCallIds_FirstOnly(blocks, firstId) ==
  [i \in 1..Len(blocks) |->
     IF i = FirstToolUse(blocks)
     THEN [blocks[i] EXCEPT !.callId = firstId]
     ELSE blocks[i]]

\* parsed.forEach: every tool_use block gets a generated callId
AssignCallIds(blocks, firstId) ==
  [i \in 1..Len(blocks) |->
     IF blocks[i].type = "tool_use"
     THEN [blocks[i] EXCEPT !.callId =
             firstId + Cardinality({j \in 1..(i - 1) : blocks[j].type = "tool_use"})]
     ELSE blocks[i]]

\* the content of the assistant message: the whole parsed list
AssistantContent(blocks) ==
  [i \in 1..Len(blocks) |->
     IF blocks[i].type = "text"
     THEN TextItem(blocks[i].content)
     ELSE ToolUseItem(blocks[i].callId, blocks[i].name, blocks[i].params)]

AssistantMessage(blocks, usage) ==
  NewMessage("assistant", AssistantContent(blocks),
             [has |-> TRUE, input_tokens |-> usage.promptTokens,
              output_tokens |-> usage.completionTokens])

\* the user message holding the tool_result of a tool use
ToolResultMessage(toolUse, res) ==
  NewMessage("user",
             <<ToolResultItem(toolUse.callId, toolUse.name, toolUse.params, res)>>,
             NoMsgUsage)

\* a not-found result that is not flagged as an error
NotFoundResult_NotFlagged == [llmContent |-> "Error: Tool not found", isError |-> FALSE]

NotFoundResult == [llmContent |-> "Error: Tool not found", isError |-> TRUE]
ExecErrorResult == [llmContent |-> "Error executing tool", isError |-> TRUE]
\* a denial payload that is not flagged as an error
DeniedResult_NotFlagged ==
  [llmContent |-> "Error: Tool execution was denied by user.", isError |-> FALSE]

DeniedResult ==
  [llmContent |-> "Error: Tool execution was denied by user.", isError |-> TRUE]

(***************************************************************************)
(* The registered tool behind the name in Tools: its parameters schema and *)
(* its approval rule.                                                      *)
(***************************************************************************)
\* the key "command" of the arguments object
CommandKey == <<QUOTE, "b", QUOTE>>

\* the value of "command" in a parsed arguments object, <<>> without one
CommandOf(params) ==
  IF /\ params.err = ""
     /\ IsJsonObject(params.val)
     /\ Len(params.val) > Len(CommandKey) + 2
     /\ Slice(params.val, 2, Len(CommandKey) + 1) = CommandKey
     /\ params.val[Len(CommandKey) + 2] = ":"
  THEN Slice(params.val, Len(CommandKey) + 4, Len(params.val) - 2)
  ELSE <<>>

\* schema.safeParse(params) with z.object({command: z.string(), ...}): an
\* object with a string under "command"; the {_error, _raw} placeholder and
\* {} have none
SchemaAccepts(params) ==
  /\ params.err = ""
  /\ IsJsonObject(params.val)
  /\ Len(params.val) > Len(CommandKey) + 2
  /\ Slice(params.val, 2, Len(CommandKey) + 1) = CommandKey
  /\ params.val[Len(CommandKey) + 2] = ":"

\* the commands of the shell registry the model uses
ShellRegistry == {<<"a">>, <<"rm">>}

\* what separates the words of a command line: /[\s;&|]+/
Separators == {WS, ";"}

RECURSIVE FirstWord(_)
FirstWord(s) ==
  IF s = <<>> \/ Head(s) \in Separators THEN <<>>
  ELSE <<Head(s)>> \o FirstWord(Tail(s))

RECURSIVE LastSegment(_)
LastSegment(s) ==
  IF \E i \in 1..Len(s) : s[i] = "/" THEN LastSegment(Tail(s)) ELSE s

\* getCommandRoot: trim, drop braces and parentheses, the first word, its
\* last path segment
getCommandRoot(command) ==
  LET t == Trim(command)
      u == [i \in 1..Len(t) |-> IF t[i] = "$(" THEN "$" ELSE t[i]]
  IN LastSegment(FirstWord(u))

isAllowedCommand(command) ==
  /\ getCommandRoot(command) # <<>>
  /\ getCommandRoot(command) \in ShellRegistry

\* the risk patterns that can match the words the model uses: command
\* substitution, /rm\s+.*(-rf|--recursive)/ and /sudo/
isHighRiskCommand(command) ==
  \/ \E i \in 1..Len(command) : command[i] = "$("
  \/ \E i \in 1..Len(command) :
       /\ command[i] = "rm"
       /\ i + 1 <= Len(command) /\ command[i + 1] = WS
       /\ \E j \in (i + 2)..Len(command) : command[j] \in {"-rf", "--recursive"}
  \/ \E i \in 1..Len(command) : command[i] = "sudo"

\* a yolo mode that is asked before the risk checks
needsApproval_ModeFirst(params, approvalMode) ==
  IF CommandOf(params) = <<>> THEN FALSE
  ELSE IF approvalMode = "yolo" THEN FALSE
  ELSE TRUE

\* approval.needsApproval({params, approvalMode})
needsApproval(params, approvalMode) ==
  IF CommandOf(params) = <<>> THEN FALSE
  ELSE IF isHighRiskCommand(CommandOf(params)) THEN TRUE
  ELSE IF ~isAllowedCommand(CommandOf(params)) THEN TRUE
  ELSE approvalMode # "yolo"

NoApprovalCtx == [params |-> EmptyParams, approvalMode |-> "default"]

\* let buffer = ''; text = ''; nothing read, no onTextDelta call made
NoStreamState == [pos |-> 0, buffer |-> <<>>, text |-> <<>>, deltas |-> <<>>]

(***************************************************************************)
(* The response stream: data frames, the [DONE] sentinel, lines that are   *)
(* skipped.                                                                *)
(***************************************************************************)
NoApiUsage == [prompt_tokens |-> Absent, completion_tokens |-> Absent,
               total_tokens |-> Absent]

DataFrame(content, hasUsage, usage) ==
  [kind |-> "data", content |-> content, hasUsage |-> hasUsage, usage |-> usage]

ToolCallText(name, args) ==
  <<TOOL_USE_OPEN, TOOL_NAME_OPEN>> \o name \o <<TOOL_NAME_CLOSE, ARGUMENTS_OPEN>>
    \o args \o <<ARGUMENTS_CLOSE, TOOL_USE_CLOSE>>

ApiUsageA == [prompt_tokens |-> Num(1), completion_tokens |-> Num(2),
              total_tokens |-> Absent]
ApiUsageB == [prompt_tokens |-> Num(2), completion_tokens |-> Num(1),
              total_tokens |-> Num(4)]

Frames ==
  { DataFrame(<<"x">>, FALSE, NoApiUsage),
    DataFrame(ToolCallText(<<"a">>, <<"{", QUOTE, "b", QUOTE, ":", QUOTE, "x", QUOTE, "}">>),
              FALSE, NoApiUsage),
    DataFrame(ToolCallText(<<"m">>, <<"{", "}">>), FALSE, NoApiUsage),
    DataFrame(<<TOOL_USE_OPEN, TOOL_NAME_OPEN, "a", TOOL_NAME_CLOSE,
                ARGUMENTS_OPEN, "x">>, FALSE, NoApiUsage),
    DataFrame(<<>>, TRUE, ApiUsageA),
    DataFrame(<<"x">>, TRUE, ApiUsageB),
    [kind |-> "done", content |-> <<>>, hasUsage |-> FALSE, usage |-> NoApiUsage],
    [kind |-> "junk", content |-> <<>>, hasUsage |-> FALSE, usage |-> NoApiUsage] }

\* the complete lines one chunk can add, at most n of them
Chunks(n) == UNION {[1..k -> Frames] : k \in 0..n}

\* the for loop over the lines of a chunk; acc holds text, lastUsage and
\* totalUsage; throwsAt are the lines whose onTextDelta call throws
RECURSIVE ProcessLines(_, _, _, _)
ProcessLines(lines, throwsAt, i, acc) ==
  IF i > Len(lines) THEN acc
  ELSE LET line == lines[i]
           withText == IF line.content # <<>>
                       THEN [acc EXCEPT !.text = @ \o line.content]
                       ELSE acc
           thrown == line.content # <<>> /\ i \in throwsAt
           withUsage == IF line.hasUsage /\ ~thrown
                        THEN [withText EXCEPT
                                !.lastUsage = UsageFromApiResponse(line.usage),
                                !.totalUsage = UsageAdd(@, UsageFromApiResponse(line.usage))]
                        ELSE withText
       IN ProcessLines(lines, throwsAt, i + 1,
                       IF line.kind = "data" THEN withUsage ELSE acc)

(***************************************************************************)
(* The state of one runLoop invocation.                                    *)
(***************************************************************************)
VARIABLES
  pc,                \* where the run stands
  aborted,           \* options.signal.aborted
  controllerAborted, \* abortController.signal.aborted
  maxTurns,          \* options.maxTurns
  turnsCount,
  toolCallsCount,
  finalText,
  lastUsage,
  totalUsage,
  history,           \* History.messages
  text,              \* the text accumulated for the turn
  parsed,            \* parseMessage(text), callIds assigned once generated
  toolResult,        \* the ToolResult in hand
  nextUuid,          \* the next value generateUUID returns
  result,            \* the LoopResult the promise resolved to
  requests,          \* fetch calls made
  framesRead,        \* lines delivered by the endpoint so far
  chunksRead,        \* chunks reader.read() delivered in this turn
  chunksProcessed,   \* chunks of this turn's stream that were processed
  toolLog,           \* the tool function invocations, in order
  onTurnLog,         \* the usage values handed to onTurn, in order
  onTurnObjs,        \* the objects handed to onTurn, as their fields stand now
  msgTurn,           \* for each message of history, the turn that appended it
  reader,            \* the reader of the turn's response body
  onToolApprove,     \* options.onToolApprove: "function" or "undefined"
  toolUseReturned,   \* what onToolUse resolved to for the turn's tool use
  heap,              \* the Message[] arrays that exist, by reference
  historyOf,         \* for each run, the array its History.messages refers to
  inOnMessage,       \* for each run, whether an addMessage awaits onMessage
  onMessageLog,      \* for each run, the messages handed to onMessage, in order
  agentOpts,         \* the context flags and session id given to createAgentWithTools
  agentTools,        \* the tools the created agent holds, in order
  usageHeap,         \* the Usage objects that exist, by reference
  usageRefs,         \* the Usage references the calls returned, in order
  approvalCtx,       \* the {params, approvalMode} context a needsApproval call gets
  approvalNeeded,    \* what that call returned
  streamBytes,       \* the whole content of a response body
  streamState        \* how far it was read: position, buffer, text, deltas

\* the arrays and Histories of several runs over one caller
shareVars == <<heap, historyOf, inOnMessage, onMessageLog>>

\* createAgentWithTools(apiKey): the default context, no session id
DefaultAgentOpts ==
  [enableWrite |-> "true", enableTodo |-> "true", sessionId |-> "undefined"]

\* no tool use is with onToolUse, or has come back from it
NoToolUse == [name |-> <<>>, params |-> EmptyParams]

\* the state of the run that is followed step by step
loopVars == <<pc, aborted, controllerAborted, maxTurns, turnsCount,
              toolCallsCount, finalText, lastUsage, totalUsage, history, text,
              parsed, toolResult, nextUuid, result, requests, framesRead,
              chunksRead, chunksProcessed, toolLog, onTurnLog, onTurnObjs, msgTurn, reader,
              onToolApprove, toolUseReturned>>

\* the making of an agent
agentVars == <<agentOpts, agentTools>>

\* what a step of the run leaves alone
\* the Usage objects of a caller of the class
usageVars == <<usageHeap, usageRefs>>

\* a call of the bash tool's needsApproval
approvalVars == <<approvalCtx, approvalNeeded>>

\* the reading of one response body
streamVars == <<streamBytes, streamState>>

restVars == <<shareVars, agentVars, usageVars, approvalVars, streamVars>>

vars == <<loopVars, restVars>>

\* the caller's runs, the array the caller may pass as options.input, and
\* the array a run creates itself for a string input
Runs == {1, 2}
InputRef == 0
FreshRef(r) == r
NotStarted == 3
Refs == {InputRef} \cup {FreshRef(r) : r \in Runs}
InputArray == InitialMessages
InitialHeap == [ref \in Refs |-> IF ref = InputRef THEN InputArray ELSE <<>>]

\* what the caller holds once the promise settled
Pending ==
  [success |-> FALSE, type |-> "none", text |-> <<>>, details |-> {},
   metadata |-> FALSE]

CancelError ==
  [success |-> FALSE, type |-> "canceled", text |-> <<>>,
   details |-> {"turnsCount", "history", "usage"}, metadata |-> FALSE]

MaxTurnsError ==
  [success |-> FALSE, type |-> "max_turns_exceeded", text |-> <<>>,
   details |-> {"turnsCount", "history", "usage"}, metadata |-> FALSE]

ApiError ==
  [success |-> FALSE, type |-> "api_error", text |-> <<>>, details |-> {"error"},
   metadata |-> FALSE]

DeniedError ==
  [success |-> FALSE, type |-> "tool_denied", text |-> <<>>,
   details |-> {"toolUse", "history", "usage"}, metadata |-> FALSE]

\* data.text is finalText as it stands at the return
Success(finalTextNow) ==
  [success |-> TRUE, type |-> "success", text |-> finalTextNow,
   details |-> {"text", "history", "usage"}, metadata |-> TRUE]

\* the state after the preamble of runLoop, options.onToolApprove being one
\* of approveOptions
InitWith(approveOptions) ==
  /\ pc = "top"
  /\ aborted \in BOOLEAN
  /\ controllerAborted = FALSE
  /\ maxTurns \in 0..MaxTurnsOpt
  /\ turnsCount = 0
  /\ toolCallsCount = 0
  /\ finalText = <<>>
  /\ lastUsage = UsageEmpty
  /\ totalUsage = UsageEmpty
  /\ history = InitialMessages
  /\ text = <<>>
  /\ parsed = <<>>
  /\ toolResult = NoResult
  /\ nextUuid = 2
  /\ result = Pending
  /\ requests = 0
  /\ framesRead = 0
  /\ chunksRead = 0
  /\ chunksProcessed = 0
  /\ toolLog = <<>>
  /\ onTurnLog = <<>>
  /\ onTurnObjs = <<>>
  /\ msgTurn = <<0>>
  /\ reader = "none"
  /\ toolUseReturned = NoToolUse
  /\ onToolApprove \in approveOptions
  /\ heap = InitialHeap
  /\ historyOf = [r \in Runs |-> NotStarted]
  /\ inOnMessage = [r \in Runs |-> FALSE]
  /\ onMessageLog = [r \in Runs |-> <<>>]
  /\ agentOpts = DefaultAgentOpts
  /\ agentTools = <<>>
  /\ usageHeap = <<>>
  /\ usageRefs = <<>>
  /\ streamBytes = <<>>
  /\ streamState = NoStreamState
  /\ approvalCtx = NoApprovalCtx
  /\ approvalNeeded = FALSE

\* the host passes onToolApprove
Init == InitWith({"function"})

\* return <value>
Return(value) ==
  /\ pc' = "done"
  /\ result' = value

\* an exception that leaves runLoop: the promise rejects
Reject ==
  /\ pc' = "rejected"
  /\ result' = Pending

\* history.addMessage(message) as far as the push
Push(message) ==
  /\ history' = AddMessage(history, message, nextUuid)
  /\ nextUuid' = nextUuid + 1
  /\ msgTurn' = Append(msgTurn, turnsCount)

\* two pushes in a row
PushTwo(first, second) ==
  /\ history' = AddMessage(AddMessage(history, first, nextUuid), second, nextUuid + 1)
  /\ nextUuid' = nextUuid + 2
  /\ msgTurn' = msgTurn \o <<turnsCount, turnsCount>>

\* the tool use the turn acts on
ActedToolUse == parsed[FirstToolUse(parsed)]

(***************************************************************************)
(* The caller aborts options.signal while the run is under way.            *)
(***************************************************************************)
Abort ==
  /\ pc \notin {"done", "rejected"}
  /\ ~aborted
  /\ aborted' = TRUE
  /\ UNCHANGED <<pc, controllerAborted, maxTurns, turnsCount, toolCallsCount,
                 finalText, lastUsage, totalUsage, history, text, parsed,
                 toolResult, nextUuid, result, requests, framesRead,
                 chunksProcessed, toolLog, onTurnLog, onTurnObjs, msgTurn,
                 chunksRead>>
  /\ UNCHANGED <<reader, onToolApprove, restVars>>
  /\ UNCHANGED toolUseReturned

(***************************************************************************)
(* Top of the while loop.                                                  *)
(***************************************************************************)
CancelAtTurnStart ==
  /\ pc = "top"
  /\ CanceledAtTurnStart(aborted, controllerAborted)
  /\ controllerAborted' = TRUE
  /\ Return(CancelError)
  /\ UNCHANGED <<aborted, maxTurns, turnsCount, toolCallsCount, finalText,
                 lastUsage, totalUsage, history, text, parsed, toolResult,
                 nextUuid, requests, framesRead, chunksProcessed, toolLog,
                 onTurnLog, onTurnObjs, msgTurn,
                 chunksRead>>
  /\ UNCHANGED <<reader, onToolApprove, restVars>>
  /\ UNCHANGED toolUseReturned

MaxTurnsExceeded ==
  /\ pc = "top"
  /\ ~CanceledAtTurnStart(aborted, controllerAborted)
  /\ turnsCount' = turnsCount + 1
  /\ TurnBudgetExceeded(turnsCount + 1, maxTurns)
  /\ Return(MaxTurnsError)
  /\ UNCHANGED <<aborted, controllerAborted, maxTurns, toolCallsCount, finalText,
                 lastUsage, totalUsage, history, text, parsed, toolResult,
                 nextUuid, requests, framesRead, chunksProcessed, toolLog,
                 onTurnLog, onTurnObjs, msgTurn,
                 chunksRead>>
  /\ UNCHANGED <<reader, onToolApprove, restVars>>
  /\ UNCHANGED toolUseReturned

\* lastUsage.reset() as the objects handed to onTurn see it: the variable
\* still refers to the object the last onTurn call got (it is assigned only
\* while a stream is read, before the turn's onTurn), so that object is the
\* one whose fields are zeroed
ResetHandedObject(objs) ==
  IF objs = <<>> THEN objs ELSE [objs EXCEPT ![Len(objs)] = UsageEmpty]

\* lastUsage.reset(), the request body, the call of fetch
SendRequest ==
  /\ pc = "top"
  /\ ~CanceledAtTurnStart(aborted, controllerAborted)
  /\ turnsCount' = turnsCount + 1
  /\ ~TurnBudgetExceeded(turnsCount + 1, maxTurns)
  /\ lastUsage' = UsageEmpty
  /\ onTurnObjs' = ResetHandedObject(onTurnObjs)
  /\ text' = <<>>
  /\ parsed' = <<>>
  /\ chunksRead' = 0
  /\ chunksProcessed' = 0
  /\ requests' = requests + 1
  /\ pc' = "fetch"
  /\ UNCHANGED <<aborted, controllerAborted, maxTurns, toolCallsCount, finalText,
                 totalUsage, history, toolResult, nextUuid, result, framesRead,
                 toolLog, onTurnLog, msgTurn>>
  /\ UNCHANGED <<reader, onToolApprove, restVars>>
  /\ UNCHANGED toolUseReturned

(***************************************************************************)
(* The request and the stream.                                             *)
(***************************************************************************)
\* fetch resolved with an ok response that has a body, and
\* response.body.getReader() locked the body to the reader
FetchOk ==
  /\ pc = "fetch"
  /\ pc' = "read"
  /\ UNCHANGED <<aborted, controllerAborted, maxTurns, turnsCount, toolCallsCount,
                 finalText, lastUsage, totalUsage, history, text, parsed,
                 toolResult, nextUuid, result, requests, framesRead,
                 chunksProcessed, toolLog, onTurnLog, onTurnObjs, msgTurn,
                 chunksRead>>
  /\ reader' = "locked"
  /\ UNCHANGED <<onToolApprove, restVars>>
  /\ UNCHANGED toolUseReturned

\* fetch rejected, the response was not ok, or it had no body
FetchFails ==
  /\ pc = "fetch"
  /\ Return(ApiError)
  /\ UNCHANGED <<aborted, controllerAborted, maxTurns, turnsCount, toolCallsCount,
                 finalText, lastUsage, totalUsage, history, text, parsed,
                 toolResult, nextUuid, requests, framesRead, chunksProcessed,
                 toolLog, onTurnLog, onTurnObjs, msgTurn,
                 chunksRead>>
  /\ UNCHANGED <<reader, onToolApprove, restVars>>
  /\ UNCHANGED toolUseReturned

LinesCost(lines) == IF Len(lines) = 0 THEN 1 ELSE Len(lines)

\* reader.read() delivered a chunk, the lines being processed before the
\* signal is looked at
ReadChunk_ProcessesBeforeCheck ==
  /\ pc = "read"
  /\ framesRead < MaxFrames
  /\ \E lines \in Chunks(MaxLinesPerChunk) :
       /\ framesRead + LinesCost(lines) <= MaxFrames
       /\ framesRead' = framesRead + LinesCost(lines)
       /\ chunksRead' = chunksRead + 1
       /\ \E throwsAt \in SUBSET {i \in 1..Len(lines) :
                                     lines[i].hasUsage /\ lines[i].content # <<>>} :
            LET acc == ProcessLines(lines, throwsAt, 1,
                                    [text |-> text, lastUsage |-> lastUsage,
                                     totalUsage |-> totalUsage])
            IN /\ text' = acc.text
               /\ lastUsage' = acc.lastUsage
               /\ totalUsage' = acc.totalUsage
               /\ chunksProcessed' = chunksProcessed + 1
       /\ IF CanceledAfterChunk(aborted)
          THEN Return(CancelError)
          ELSE UNCHANGED <<pc, result>>
  /\ UNCHANGED <<aborted, controllerAborted, maxTurns, turnsCount, toolCallsCount,
                 finalText, history, parsed, toolResult, nextUuid, requests,
                 toolLog, onTurnLog, onTurnObjs, msgTurn>>
  /\ UNCHANGED <<reader, onToolApprove, restVars>>
  /\ UNCHANGED toolUseReturned

\* reader.read() delivered a chunk
ReadChunk ==
  /\ pc = "read"
  /\ framesRead < MaxFrames
  /\ \E lines \in Chunks(MaxLinesPerChunk) :
       /\ framesRead + LinesCost(lines) <= MaxFrames
       /\ framesRead' = framesRead + LinesCost(lines)
       /\ chunksRead' = chunksRead + 1
       /\ IF CanceledAfterChunk(aborted)
          THEN /\ Return(CancelError)
               /\ UNCHANGED <<text, lastUsage, totalUsage, chunksProcessed>>
          ELSE \E throwsAt \in SUBSET {i \in 1..Len(lines) :
                                         lines[i].hasUsage /\ lines[i].content # <<>>} :
                 LET acc == ProcessLines(lines, throwsAt, 1,
                                         [text |-> text, lastUsage |-> lastUsage,
                                          totalUsage |-> totalUsage])
                 IN /\ text' = acc.text
                    /\ lastUsage' = acc.lastUsage
                    /\ totalUsage' = acc.totalUsage
                    /\ chunksProcessed' = chunksProcessed + 1
                    /\ UNCHANGED <<pc, result>>
  /\ UNCHANGED <<aborted, controllerAborted, maxTurns, turnsCount, toolCallsCount,
                 finalText, history, parsed, toolResult, nextUuid, requests,
                 toolLog, onTurnLog, onTurnObjs, msgTurn>>
  /\ UNCHANGED <<reader, onToolApprove, restVars>>
  /\ UNCHANGED toolUseReturned

\* reader.read() reported the end of the stream: the check of the signal
\* after the stream, then parseMessage
ReadDone ==
  /\ pc = "read"
  /\ IF CanceledAfterStream(aborted)
     THEN /\ Return(CancelError)
          /\ UNCHANGED parsed
     ELSE /\ parsed' = parseMessage(text)
          /\ pc' = "onText"
          /\ UNCHANGED result
  /\ UNCHANGED <<aborted, controllerAborted, maxTurns, turnsCount, toolCallsCount,
                 finalText, lastUsage, totalUsage, history, text, toolResult,
                 nextUuid, requests, framesRead, chunksProcessed, toolLog,
                 onTurnLog, onTurnObjs, msgTurn,
                 chunksRead>>
  /\ UNCHANGED <<reader, onToolApprove, restVars>>
  /\ UNCHANGED toolUseReturned

\* reader.read() rejected
ReadFails ==
  /\ pc = "read"
  /\ Return(ApiError)
  /\ UNCHANGED <<aborted, controllerAborted, maxTurns, turnsCount, toolCallsCount,
                 finalText, lastUsage, totalUsage, history, text, parsed,
                 toolResult, nextUuid, requests, framesRead, chunksProcessed,
                 toolLog, onTurnLog, onTurnObjs, msgTurn,
                 chunksRead>>
  /\ UNCHANGED <<reader, onToolApprove, restVars>>
  /\ UNCHANGED toolUseReturned

(***************************************************************************)
(* After the stream: onText, callIds, onTurn, the assistant message.       *)
(***************************************************************************)
\* await options.onText?.(content), finalText, then the callIds
OnText ==
  /\ pc = "onText"
  /\ finalText' = IF FirstText(parsed) # 0
                  THEN parsed[FirstText(parsed)].content ELSE finalText
  /\ parsed' = AssignCallIds(parsed, nextUuid)
  /\ nextUuid' = nextUuid + ToolUseCount(parsed)
  /\ pc' = "onTurn"
  /\ UNCHANGED <<aborted, controllerAborted, maxTurns, turnsCount, toolCallsCount,
                 lastUsage, totalUsage, history, text, toolResult, result,
                 requests, framesRead, chunksProcessed, toolLog, onTurnLog, onTurnObjs,
                 msgTurn,
                 chunksRead>>
  /\ UNCHANGED <<reader, onToolApprove, restVars>>
  /\ UNCHANGED toolUseReturned

\* await options.onTurn?.({usage: lastUsage, ...}); the callback may throw
OnTurn ==
  /\ pc = "onTurn"
  /\ onTurnLog' = Append(onTurnLog, lastUsage)
  /\ onTurnObjs' = Append(onTurnObjs, lastUsage)
  /\ \/ pc' = "addAssistant" /\ UNCHANGED result
     \/ Reject
  /\ UNCHANGED <<aborted, controllerAborted, maxTurns, turnsCount, toolCallsCount,
                 finalText, lastUsage, totalUsage, history, text, parsed,
                 toolResult, nextUuid, requests, framesRead, chunksProcessed,
                 toolLog, msgTurn,
                 chunksRead>>
  /\ UNCHANGED <<reader, onToolApprove, restVars>>
  /\ UNCHANGED toolUseReturned

\* await history.addMessage(assistant message); without a tool_use block the
\* loop breaks and the run returns success; onMessage may throw
AppendAssistant ==
  /\ pc = "addAssistant"
  /\ Push(AssistantMessage(parsed, lastUsage))
  /\ \/ Reject
     \/ IF FirstToolUse(parsed) = 0
        THEN Return(Success(finalText))
        ELSE pc' = "onToolUse" /\ UNCHANGED result
  /\ UNCHANGED <<aborted, controllerAborted, maxTurns, turnsCount, toolCallsCount,
                 finalText, lastUsage, totalUsage, text, parsed, toolResult,
                 requests, framesRead, chunksProcessed, toolLog, onTurnLog, onTurnObjs,
                 chunksRead>>
  /\ UNCHANGED <<reader, onToolApprove, restVars>>
  /\ UNCHANGED toolUseReturned

\* what a host's onToolUse may resolve to for a tool use: the same name and
\* params, or a tool use of its own making
OnToolUseResults(toolUse) ==
  { [name |-> toolUse.name, params |-> toolUse.params],
    [name |-> <<"b">>, params |-> EmptyParams] }

\* await options.onToolUse(...): the value it resolves to is not used
OnToolUse ==
  /\ pc = "onToolUse"
  /\ pc' = "approve"
  /\ UNCHANGED <<aborted, controllerAborted, maxTurns, turnsCount, toolCallsCount,
                 finalText, lastUsage, totalUsage, history, text, parsed,
                 toolResult, nextUuid, result, requests, framesRead,
                 chunksProcessed, toolLog, onTurnLog, onTurnObjs, msgTurn,
                 chunksRead>>
  /\ UNCHANGED <<reader, onToolApprove, restVars>>
  /\ toolUseReturned' \in OnToolUseResults(ActedToolUse)

\* onText, onToolUse, onToolApprove, or onToolResult on the denial path
\* throws or rejects: nothing around these awaits catches it
CallbackThrows ==
  /\ \/ pc = "onText" /\ FirstText(parsed) # 0
     \/ pc \in {"onToolUse", "denied"}
     \/ pc = "approve" /\ onToolApprove = "function"
  /\ Reject
  /\ UNCHANGED <<aborted, controllerAborted, maxTurns, turnsCount, toolCallsCount,
                 finalText, lastUsage, totalUsage, history, text, parsed,
                 toolResult, nextUuid, requests, framesRead, chunksProcessed,
                 toolLog, onTurnLog, onTurnObjs, msgTurn,
                 chunksRead>>
  /\ UNCHANGED <<reader, onToolApprove, restVars>>
  /\ toolUseReturned' = NoToolUse

(***************************************************************************)
(* Approval and execution of the first tool_use of the turn.               *)
(***************************************************************************)
\* approved, and options.tools has the function: it is called
ToolApproved ==
  /\ pc = "approve"
  /\ ActedToolUse.name \in Tools
  /\ toolCallsCount' = toolCallsCount + 1
  /\ toolLog' = Append(toolLog, [turn |-> turnsCount, name |-> ActedToolUse.name,
                                 callId |-> ActedToolUse.callId])
  /\ pc' = "tool"
  /\ UNCHANGED <<aborted, controllerAborted, maxTurns, turnsCount, finalText,
                 lastUsage, totalUsage, history, text, parsed, toolResult,
                 nextUuid, result, requests, framesRead, chunksProcessed,
                 onTurnLog, onTurnObjs, msgTurn,
                 chunksRead>>
  /\ UNCHANGED <<reader, onToolApprove, restVars>>
  /\ UNCHANGED toolUseReturned

\* approved, but options.tools has no such function
ToolMissing ==
  /\ pc = "approve"
  /\ ActedToolUse.name \notin Tools
  /\ toolCallsCount' = toolCallsCount + 1
  /\ Push(ToolResultMessage(ActedToolUse, NotFoundResult))
  /\ \/ pc' = "top" /\ UNCHANGED result
     \/ Reject
  /\ UNCHANGED <<aborted, controllerAborted, maxTurns, turnsCount, finalText,
                 lastUsage, totalUsage, text, parsed, toolResult, requests,
                 framesRead, chunksProcessed, toolLog, onTurnLog, onTurnObjs,
                 chunksRead>>
  /\ UNCHANGED <<reader, onToolApprove, restVars>>
  /\ toolUseReturned' = NoToolUse

\* onToolApprove resolved to false
ToolDenied ==
  /\ pc = "approve"
  /\ onToolApprove = "function"
  /\ toolResult' = DeniedResult
  /\ pc' = "denied"
  /\ UNCHANGED <<aborted, controllerAborted, maxTurns, turnsCount, toolCallsCount,
                 finalText, lastUsage, totalUsage, history, text, parsed,
                 nextUuid, result, requests, framesRead, chunksProcessed,
                 toolLog, onTurnLog, onTurnObjs, msgTurn,
                 chunksRead>>
  /\ UNCHANGED <<reader, onToolApprove, restVars>>
  /\ UNCHANGED toolUseReturned

\* the tool function resolved
ToolReturns ==
  /\ pc = "tool"
  /\ \E isError \in BOOLEAN :
       toolResult' = [llmContent |-> "output", isError |-> isError]
  /\ pc' = "toolResult"
  /\ UNCHANGED <<aborted, controllerAborted, maxTurns, turnsCount, toolCallsCount,
                 finalText, lastUsage, totalUsage, history, text, parsed,
                 nextUuid, result, requests, framesRead, chunksProcessed,
                 toolLog, onTurnLog, onTurnObjs, msgTurn,
                 chunksRead>>
  /\ UNCHANGED <<reader, onToolApprove, restVars>>
  /\ UNCHANGED toolUseReturned

\* the tool function threw: the catch block records an error result
ToolThrows ==
  /\ pc = "tool"
  /\ Push(ToolResultMessage(ActedToolUse, ExecErrorResult))
  /\ \/ pc' = "top" /\ UNCHANGED result
     \/ Reject
  /\ UNCHANGED <<aborted, controllerAborted, maxTurns, turnsCount, toolCallsCount,
                 finalText, lastUsage, totalUsage, text, parsed, toolResult,
                 requests, framesRead, chunksProcessed, toolLog, onTurnLog, onTurnObjs,
                 chunksRead>>
  /\ UNCHANGED <<reader, onToolApprove, restVars>>
  /\ toolUseReturned' = NoToolUse

\* what onToolResult may resolve to: its argument, or a result of its own
Rewritten(res) ==
  {res, [llmContent |-> "rewritten", isError |-> ~res.isError]}

\* inside the try: onToolResult, then addMessage of the result.  A throw of
\* onToolResult, or of onMessage after the push, lands in the catch block,
\* which pushes an error result.
RecordToolResult ==
  /\ pc = "toolResult"
  /\ \/ \E res \in Rewritten(toolResult) :
          /\ toolResult' = res
          /\ \/ /\ Push(ToolResultMessage(ActedToolUse, res))
                /\ pc' = "top" /\ UNCHANGED result
             \/ /\ PushTwo(ToolResultMessage(ActedToolUse, res),
                           ToolResultMessage(ActedToolUse, ExecErrorResult))
                /\ \/ pc' = "top" /\ UNCHANGED result
                   \/ Reject
     \/ /\ UNCHANGED toolResult
        /\ Push(ToolResultMessage(ActedToolUse, ExecErrorResult))
        /\ \/ pc' = "top" /\ UNCHANGED result
           \/ Reject
  /\ UNCHANGED <<aborted, controllerAborted, maxTurns, turnsCount, toolCallsCount,
                 finalText, lastUsage, totalUsage, text, parsed, requests,
                 framesRead, chunksProcessed, toolLog, onTurnLog, onTurnObjs,
                 chunksRead>>
  /\ UNCHANGED <<reader, onToolApprove, restVars>>
  /\ toolUseReturned' = NoToolUse

\* the denial branch: onToolResult, addMessage, return tool_denied
RecordDenial ==
  /\ pc = "denied"
  /\ \E res \in Rewritten(toolResult) :
       /\ toolResult' = res
       /\ Push(ToolResultMessage(ActedToolUse, res))
  /\ \/ Return(DeniedError)
     \/ Reject
  /\ UNCHANGED <<aborted, controllerAborted, maxTurns, turnsCount, toolCallsCount,
                 finalText, lastUsage, totalUsage, text, parsed, requests,
                 framesRead, chunksProcessed, toolLog, onTurnLog, onTurnObjs,
                 chunksRead>>
  /\ UNCHANGED <<reader, onToolApprove, restVars>>
  /\ toolUseReturned' = NoToolUse

Next ==
  \/ Abort
  \/ CancelAtTurnStart
  \/ MaxTurnsExceeded
  \/ SendRequest
  \/ FetchOk
  \/ FetchFails
  \/ ReadChunk
  \/ ReadDone
  \/ ReadFails
  \/ OnText
  \/ OnTurn
  \/ AppendAssistant
  \/ OnToolUse
  \/ CallbackThrows
  \/ ToolApproved
  \/ ToolMissing
  \/ ToolDenied
  \/ ToolReturns
  \/ ToolThrows
  \/ RecordToolResult
  \/ RecordDenial

Spec == Init /\ [][Next]_vars

\* the same run when the host may leave onToolApprove out, as the runLoop of
\* createAgentWithTools does for a caller that passes no options
InitApproveOptional == InitWith({"function", "undefined"})

SpecApproveOptional == InitApproveOptional /\ [][Next]_vars

(***************************************************************************)
(* Several runs of one caller.  A run is followed here only as far as its  *)
(* History goes: the constructor, then the addMessage calls of the loop.   *)
(***************************************************************************)
MaxArrayLen == 3

\* the text by which a message shows which run appended it
RunLetter(r) == IF r = 1 THEN "a" ELSE "b"

\* a uuid and a timestamp the caller of addMessage supplied
SuppliedUuid == 99
SuppliedTimestamp == "then"

\* an assistant message run r appends; its text tells the run and whether
\* it comes with a uuid ("u") and with a timestamp ("t")
RunMessage(r, withUuid, withTimestamp) ==
  [NewMessage("assistant",
              <<TextItem(<<RunLetter(r)>>
                           \o (IF withUuid THEN <<"u">> ELSE <<>>)
                           \o (IF withTimestamp THEN <<"t">> ELSE <<>>))>>,
              NoMsgUsage)
     EXCEPT !.uuid = IF withUuid THEN SuppliedUuid ELSE @,
            !.timestamp = IF withTimestamp THEN SuppliedTimestamp ELSE @]

\* the value generateUUID returns for run r when the array has n messages
GeneratedUuid(r, n) == 10 * r + n

AddMessageResolved_NotAwaited(r) == TRUE

\* await history.addMessage(...): the run goes on, and calls addMessage
\* again, only once the previous call has resolved
AddMessageResolved(r) == ~inOnMessage[r]

OnMessageArgument_BeforeIds(messagesAfter, message) == message

\* this.onMessage({message}): the object that was pushed
OnMessageArgument(messagesAfter, message) == messagesAfter[Len(messagesAfter)]

\* new History({messages}): this.messages = options?.messages || [], the
\* array that was passed, not a copy of it
HistoryMessagesRef(messagesRef) == messagesRef

ShareInit ==
  /\ pc = "top"
  /\ aborted = FALSE
  /\ controllerAborted = FALSE
  /\ maxTurns = 0
  /\ turnsCount = 0
  /\ toolCallsCount = 0
  /\ finalText = <<>>
  /\ lastUsage = UsageEmpty
  /\ totalUsage = UsageEmpty
  /\ history = InitialMessages
  /\ text = <<>>
  /\ parsed = <<>>
  /\ toolResult = NoResult
  /\ nextUuid = 2
  /\ result = Pending
  /\ requests = 0
  /\ framesRead = 0
  /\ chunksRead = 0
  /\ chunksProcessed = 0
  /\ toolLog = <<>>
  /\ onTurnLog = <<>>
  /\ onTurnObjs = <<>>
  /\ msgTurn = <<0>>
  /\ reader = "none"
  /\ toolUseReturned = NoToolUse
  /\ onToolApprove = "function"
  /\ heap = InitialHeap
  /\ historyOf = [r \in Runs |-> NotStarted]
  /\ inOnMessage = [r \in Runs |-> FALSE]
  /\ onMessageLog = [r \in Runs |-> <<>>]
  /\ agentOpts = DefaultAgentOpts
  /\ agentTools = <<>>
  /\ usageHeap = <<>>
  /\ usageRefs = <<>>
  /\ streamBytes = <<>>
  /\ streamState = NoStreamState
  /\ approvalCtx = NoApprovalCtx
  /\ approvalNeeded = FALSE

\* runLoop({input: the caller's Message[]}): Array.isArray(options.input)
StartRunFromArray(r) ==
  /\ historyOf[r] = NotStarted
  /\ historyOf' = [historyOf EXCEPT ![r] = HistoryMessagesRef(InputRef)]
  /\ UNCHANGED <<heap, inOnMessage, onMessageLog, loopVars, agentVars, usageVars,
                 approvalVars, streamVars>>

\* runLoop({input: a string}): the array literal with the one user message
StartRunFromString(r) ==
  /\ historyOf[r] = NotStarted
  /\ heap' = [heap EXCEPT ![FreshRef(r)] = InitialMessages]
  /\ historyOf' = [historyOf EXCEPT ![r] = HistoryMessagesRef(FreshRef(r))]
  /\ UNCHANGED <<inOnMessage, onMessageLog, loopVars, agentVars, usageVars,
                 approvalVars, streamVars>>

\* history.addMessage(message) of run r as far as its await: uuid and
\* timestamp, the push, the call of onMessage
RunAddMessage(r) ==
  /\ historyOf[r] # NotStarted
  /\ AddMessageResolved(r)
  /\ Len(heap[historyOf[r]]) < MaxArrayLen
  /\ \E withUuid \in BOOLEAN, withTimestamp \in BOOLEAN :
       LET message == RunMessage(r, withUuid, withTimestamp)
           after == AddMessage(heap[historyOf[r]], message,
                               GeneratedUuid(r, Len(heap[historyOf[r]])))
       IN /\ heap' = [heap EXCEPT ![historyOf[r]] = after]
          /\ onMessageLog' = [onMessageLog EXCEPT ![r] =
                                Append(@, OnMessageArgument(after, message))]
  /\ inOnMessage' = [inOnMessage EXCEPT ![r] = TRUE]
  /\ UNCHANGED <<historyOf, loopVars, agentVars, usageVars,
                 approvalVars, streamVars>>

\* onMessage completed: addMessage resolves and the run goes on
OnMessageReturns(r) ==
  /\ inOnMessage[r]
  /\ inOnMessage' = [inOnMessage EXCEPT ![r] = FALSE]
  /\ UNCHANGED <<heap, historyOf, onMessageLog, loopVars, agentVars, usageVars,
                 approvalVars, streamVars>>

ShareNext ==
  \E r \in Runs :
    \/ StartRunFromArray(r)
    \/ StartRunFromString(r)
    \/ RunAddMessage(r)
    \/ OnMessageReturns(r)

ShareSpec == ShareInit /\ [][ShareNext]_vars

(***************************************************************************)
(* parseMessage on its own: the text is drawn from the well-formed inputs, *)
(* with one tool call between two texts, and from every input cut short.   *)
(***************************************************************************)
MaxTextLen == 2

\* the non-blank texts without tags, up to MaxTextLen characters
PlainTexts ==
  {t \in UNION {[1..n -> {"x", WS}] : n \in 1..MaxTextLen} : Trim(t) # <<>>}

ToolNames == {<<"a">>, <<WS, "a", WS>>, <<"m", "x">>}

JsonString(chars) == <<QUOTE>> \o chars \o <<QUOTE>>

JsonObject(key, value) ==
  <<"{">> \o JsonString(key) \o <<":">> \o JsonString(value) \o <<"}">>

\* texts JSON.parse accepts
JsonTexts ==
  { <<"{", "}">>,
    <<WS, "{", "}", WS>>,
    JsonString(<<"x">>),
    JsonObject(<<"b">>, <<"x">>),
    JsonObject(<<"b">>, <<"x", WS, "x">>),
    JsonObject(<<"b">>, <<ARGUMENTS_CLOSE>>),
    JsonObject(<<"b">>, <<TOOL_USE_CLOSE>>) }

WellFormed(T1, N, J, T2) == T1 \o ToolCallText(N, J) \o T2

WellFormedInputs ==
  {WellFormed(T1, N, J, T2) :
     T1 \in PlainTexts, N \in ToolNames, J \in JsonTexts, T2 \in PlainTexts}

\* the inputs of a stream that stopped early
Prefixes(s) == {SubSeq(s, 1, n) : n \in 0..Len(s)}

\* arguments texts that parse only once repairJson completed them
RepairableTexts ==
  { <<"{">> \o JsonString(<<"b">>) \o <<":", QUOTE, "x">>,
    <<"{">> \o JsonString(<<"b">>) \o <<":">> \o JsonString(<<"x">>),
    JsonString(<<"b">>) \o <<":">> \o JsonString(<<"x">>) }

\* arguments texts that do not parse, repaired or not
BadArgTexts == { <<"x">>, <<WS, "x", WS>>, <<"{", "x">>, <<QUOTE, "x">> }

ArgumentTexts == JsonTexts \cup RepairableTexts \cup BadArgTexts

\* the same shape with arguments that are not valid JSON
MalformedInputs ==
  {WellFormed(T1, N, A, T2) :
     T1 \in PlainTexts, N \in ToolNames,
     A \in RepairableTexts \cup BadArgTexts, T2 \in PlainTexts}

\* a tool invocation with text between <use_tool> and <tool_name>
StrayInputs ==
  {T1 \o <<TOOL_USE_OPEN>> \o S \o Tail(ToolCallText(<<"a">>, <<"{", "}">>)) \o T2 :
     T1 \in PlainTexts, S \in PlainTexts, T2 \in PlainTexts}

\* the texts without tags up to MaxTextLen characters, blank and empty ones too
GapTexts == UNION {[1..n -> {"x", WS}] : n \in 0..MaxTextLen}

TwoCalls(H, G, T) ==
  H \o ToolCallText(<<"a">>, <<"{", "}">>) \o G
    \o ToolCallText(<<"m">>, <<"{", "}">>) \o T

\* two tool invocations with any text, or none, before, between and after
TwoCallInputs ==
  {TwoCalls(H, G, T) : H \in {<<>>, <<WS>>}, G \in GapTexts, T \in GapTexts}

ParserInputs ==
  UNION {Prefixes(s) : s \in WellFormedInputs \cup MalformedInputs
                              \cup StrayInputs \cup TwoCallInputs}

ParserInit ==
  /\ pc = "parse"
  /\ text \in ParserInputs
  /\ aborted = FALSE
  /\ controllerAborted = FALSE
  /\ maxTurns = 0
  /\ turnsCount = 0
  /\ toolCallsCount = 0
  /\ finalText = <<>>
  /\ lastUsage = UsageEmpty
  /\ totalUsage = UsageEmpty
  /\ history = InitialMessages
  /\ parsed = <<>>
  /\ toolResult = NoResult
  /\ nextUuid = 2
  /\ result = Pending
  /\ requests = 0
  /\ framesRead = 0
  /\ chunksRead = 0
  /\ chunksProcessed = 0
  /\ toolLog = <<>>
  /\ onTurnLog = <<>>
  /\ onTurnObjs = <<>>
  /\ msgTurn = <<0>>
  /\ reader = "none"
  /\ toolUseReturned = NoToolUse
  /\ onToolApprove = "function"
  /\ heap = InitialHeap
  /\ historyOf = [r \in Runs |-> NotStarted]
  /\ inOnMessage = [r \in Runs |-> FALSE]
  /\ onMessageLog = [r \in Runs |-> <<>>]
  /\ agentOpts = DefaultAgentOpts
  /\ agentTools = <<>>
  /\ usageHeap = <<>>
  /\ usageRefs = <<>>
  /\ streamBytes = <<>>
  /\ streamState = NoStreamState
  /\ approvalCtx = NoApprovalCtx
  /\ approvalNeeded = FALSE

\* const parsed = parseMessage(text)
ParseText ==
  /\ pc = "parse"
  /\ parsed' = parseMessage(text)
  /\ pc' = "parsed"
  /\ UNCHANGED <<aborted, controllerAborted, maxTurns, turnsCount, toolCallsCount,
                 finalText, lastUsage, totalUsage, history, text, toolResult,
                 nextUuid, result, requests, framesRead, chunksRead,
                 chunksProcessed, toolLog, onTurnLog, onTurnObjs, msgTurn, reader,
                 onToolApprove, toolUseReturned, restVars>>

ParserNext == ParseText

ParserSpec == ParserInit /\ [][ParserNext]_vars

(***************************************************************************)
(* A History that holds one assistant message with one tool_use item: the  *)
(* text toApiMessages writes for it is handed to parseMessage.             *)
(***************************************************************************)
MaxNameLen == 2
MaxValueLen == 2

\* names without tags, blank and empty ones too
ItemNames == UNION {[1..n -> {"a", WS}] : n \in 0..MaxNameLen}

\* string values: letters, blanks, and the text of a closing tag
ItemValues ==
  UNION {[1..n -> {"x", WS, ARGUMENTS_CLOSE, TOOL_USE_CLOSE}] : n \in 0..MaxValueLen}

\* JSON objects as inputs: {} and {"b": value}
ItemInputs ==
  {EmptyParams} \cup {[err |-> "", val |-> JsonObject(<<"b">>, v)] : v \in ItemValues}

StoredToolUse(name, input) ==
  AddMessage(<<>>, NewMessage("assistant", <<ToolUseItem(1, name, input)>>, NoMsgUsage), 1)

RoundTripInit ==
  /\ pc = "stored"
  /\ text = <<>>
  /\ aborted = FALSE
  /\ controllerAborted = FALSE
  /\ maxTurns = 0
  /\ turnsCount = 0
  /\ toolCallsCount = 0
  /\ finalText = <<>>
  /\ lastUsage = UsageEmpty
  /\ totalUsage = UsageEmpty
  /\ history \in {StoredToolUse(name, input) : name \in ItemNames, input \in ItemInputs}
  /\ parsed = <<>>
  /\ toolResult = NoResult
  /\ nextUuid = 2
  /\ result = Pending
  /\ requests = 0
  /\ framesRead = 0
  /\ chunksRead = 0
  /\ chunksProcessed = 0
  /\ toolLog = <<>>
  /\ onTurnLog = <<>>
  /\ onTurnObjs = <<>>
  /\ msgTurn = <<0>>
  /\ reader = "none"
  /\ toolUseReturned = NoToolUse
  /\ onToolApprove = "function"
  /\ heap = InitialHeap
  /\ historyOf = [r \in Runs |-> NotStarted]
  /\ inOnMessage = [r \in Runs |-> FALSE]
  /\ onMessageLog = [r \in Runs |-> <<>>]
  /\ agentOpts = DefaultAgentOpts
  /\ agentTools = <<>>
  /\ usageHeap = <<>>
  /\ usageRefs = <<>>
  /\ streamBytes = <<>>
  /\ streamState = NoStreamState
  /\ approvalCtx = NoApprovalCtx
  /\ approvalNeeded = FALSE

\* history.toApiMessages(), the content of the message taken as a response text
CallToApiMessages ==
  /\ pc = "stored"
  /\ text' = toApiMessages(history)[1].content
  /\ pc' = "parse"
  /\ UNCHANGED <<aborted, controllerAborted, maxTurns, turnsCount, toolCallsCount,
                 finalText, lastUsage, totalUsage, history, parsed, toolResult,
                 nextUuid, result, requests, framesRead, chunksRead,
                 chunksProcessed, toolLog, onTurnLog, onTurnObjs, msgTurn, reader,
                 onToolApprove, toolUseReturned, restVars>>

RoundTripNext == CallToApiMessages \/ ParseText

RoundTripSpec == RoundTripInit /\ [][RoundTripNext]_vars

(***************************************************************************)
(* createAgentWithTools: the tools an agent is given.                      *)
(***************************************************************************)
\* an optional boolean flag of the context
Flags == {"true", "false", "undefined"}

\* the session ids a caller may pass: none, the empty string, or a name
SessionIds == {"undefined", "", "s1", "s2", "s3", "s4", "s5"}

\* JavaScript truthiness of a flag or of a session id
Truthy(v) == v \notin {"false", "undefined", ""}

\* a tool as far as its name and the file it keeps go
ToolOf(name, filePath) == [name |-> name, filePath |-> filePath]

readonlyTools ==
  << ToolOf("read", ""), ToolOf("ls", ""), ToolOf("glob", ""), ToolOf("grep", ""),
     ToolOf("fetch", "") >>

writeTools(write) ==
  IF Truthy(write)
  THEN <<ToolOf("write", ""), ToolOf("edit", ""), ToolOf("bash", "")>>
  ELSE <<>>

todoTools_WithoutSession(todo, sessionId) ==
  IF ~Truthy(todo) THEN <<>>
  ELSE <<ToolOf("todo_read", sessionId), ToolOf("todo_write", sessionId)>>

\* the todo tools keep /todos/<sessionId>.json
todoTools(todo, sessionId) ==
  IF ~Truthy(todo) \/ ~Truthy(sessionId) THEN <<>>
  ELSE <<ToolOf("todo_read", sessionId), ToolOf("todo_write", sessionId)>>

resolveTools(opts) ==
  readonlyTools \o writeTools(opts.write) \o todoTools(opts.todo, opts.sessionId)

AgentInit ==
  /\ pc = "create"
  /\ agentOpts \in [enableWrite : Flags, enableTodo : Flags, sessionId : SessionIds]
  /\ agentTools = <<>>
  /\ usageHeap = <<>>
  /\ usageRefs = <<>>
  /\ streamBytes = <<>>
  /\ streamState = NoStreamState
  /\ approvalCtx = NoApprovalCtx
  /\ approvalNeeded = FALSE
  /\ aborted = FALSE
  /\ controllerAborted = FALSE
  /\ maxTurns = 0
  /\ turnsCount = 0
  /\ toolCallsCount = 0
  /\ finalText = <<>>
  /\ lastUsage = UsageEmpty
  /\ totalUsage = UsageEmpty
  /\ history = InitialMessages
  /\ text = <<>>
  /\ parsed = <<>>
  /\ toolResult = NoResult
  /\ nextUuid = 2
  /\ result = Pending
  /\ requests = 0
  /\ framesRead = 0
  /\ chunksRead = 0
  /\ chunksProcessed = 0
  /\ toolLog = <<>>
  /\ onTurnLog = <<>>
  /\ onTurnObjs = <<>>
  /\ msgTurn = <<0>>
  /\ reader = "none"
  /\ toolUseReturned = NoToolUse
  /\ onToolApprove = "function"
  /\ heap = InitialHeap
  /\ historyOf = [r \in Runs |-> NotStarted]
  /\ inOnMessage = [r \in Runs |-> FALSE]
  /\ onMessageLog = [r \in Runs |-> <<>>]

\* createAgentWithTools(apiKey, context, sessionId): resolveTools with the
\* flags of the context, then new Tools(...) over the list
CreateAgentWithTools ==
  /\ pc = "create"
  /\ agentTools' = resolveTools([write |-> agentOpts.enableWrite,
                                 todo |-> agentOpts.enableTodo,
                                 sessionId |-> agentOpts.sessionId])
  /\ pc' = "created"
  /\ UNCHANGED <<aborted, controllerAborted, maxTurns, turnsCount, toolCallsCount,
                 finalText, lastUsage, totalUsage, history, text, parsed,
                 toolResult, nextUuid, result, requests, framesRead, chunksRead,
                 chunksProcessed, toolLog, onTurnLog, onTurnObjs, msgTurn, reader,
                 onToolApprove, toolUseReturned, shareVars, agentOpts,
                 usageVars, approvalVars, streamVars>>

AgentNext == CreateAgentWithTools

AgentSpec == AgentInit /\ [][AgentNext]_vars

(***************************************************************************)
(* The usage bookkeeping of the stream on its own: one step per chunk that *)
(* carries a usage object.                                                 *)
(***************************************************************************)
MaxUsageChunks == 2

\* Number.isNaN holds of the field
NaN == [k |-> "nan", v |-> 0]

\* the fields an endpoint may send: absent, NaN, or a number, also negative
TokenFields == {Absent, NaN, Num(0 - 1), Num(0), Num(2)}

\* JSON.parse yields no NaN, so total_tokens is absent or a number
ApiUsages ==
  [prompt_tokens : TokenFields, completion_tokens : TokenFields,
   total_tokens : TokenFields \ {NaN}]

UsageInit ==
  /\ pc = "usage"
  /\ aborted = FALSE
  /\ controllerAborted = FALSE
  /\ maxTurns = 0
  /\ turnsCount = 0
  /\ toolCallsCount = 0
  /\ finalText = <<>>
  /\ lastUsage = UsageEmpty
  /\ totalUsage = UsageEmpty
  /\ history = InitialMessages
  /\ text = <<>>
  /\ parsed = <<>>
  /\ toolResult = NoResult
  /\ nextUuid = 2
  /\ result = Pending
  /\ requests = 0
  /\ framesRead = 0
  /\ chunksRead = 0
  /\ chunksProcessed = 0
  /\ toolLog = <<>>
  /\ onTurnLog = <<>>
  /\ onTurnObjs = <<>>
  /\ msgTurn = <<0>>
  /\ reader = "none"
  /\ toolUseReturned = NoToolUse
  /\ onToolApprove = "function"
  /\ heap = InitialHeap
  /\ historyOf = [r \in Runs |-> NotStarted]
  /\ inOnMessage = [r \in Runs |-> FALSE]
  /\ onMessageLog = [r \in Runs |-> <<>>]
  /\ agentOpts = DefaultAgentOpts
  /\ agentTools = <<>>
  /\ usageHeap = <<>>
  /\ usageRefs = <<>>
  /\ streamBytes = <<>>
  /\ streamState = NoStreamState
  /\ approvalCtx = NoApprovalCtx
  /\ approvalNeeded = FALSE

\* if (chunk.usage) { lastUsage = Usage.fromApiResponse(chunk.usage);
\* totalUsage.add(lastUsage) }
UsageChunk ==
  /\ pc = "usage"
  /\ chunksProcessed < MaxUsageChunks
  /\ \E usage \in ApiUsages :
       /\ lastUsage' = UsageFromApiResponse(usage)
       /\ totalUsage' = UsageAdd(totalUsage, UsageFromApiResponse(usage))
  /\ chunksProcessed' = chunksProcessed + 1
  /\ UNCHANGED <<pc, aborted, controllerAborted, maxTurns, turnsCount,
                 toolCallsCount, finalText, history, text, parsed, toolResult,
                 nextUuid, result, requests, framesRead, chunksRead, toolLog,
                 onTurnLog, onTurnObjs, msgTurn, reader, onToolApprove, toolUseReturned,
                 restVars>>

UsageNext == UsageChunk

UsageSpec == UsageInit /\ [][UsageNext]_vars

(***************************************************************************)
(* The Usage class under a caller that makes Usage objects and calls add   *)
(* and reset on them. An object is a reference into usageHeap; usageRefs   *)
(* lists what the calls returned, with the call each one came from.        *)
(***************************************************************************)
MaxUsageObjs == 3
MaxTokens == 6

\* new Usage(init): a new object
NewUsage(heapNow, init) ==
  [heap |-> Append(heapNow, init), ref |-> Len(heapNow) + 1]

\* Usage.empty() handing out one instance made on the first call
empty_Shared(heapNow) ==
  IF heapNow = <<>> THEN NewUsage(heapNow, UsageEmpty)
  ELSE [heap |-> heapNow, ref |-> 1]

\* Usage.empty(): return new Usage()
empty(heapNow) == NewUsage(heapNow, UsageEmpty)

\* Usage.clone(): return new Usage({the three fields of this})
clone(heapNow, this) ==
  NewUsage(heapNow, [promptTokens |-> heapNow[this].promptTokens,
                     completionTokens |-> heapNow[this].completionTokens,
                     totalTokens |-> heapNow[this].totalTokens])

\* Usage.reset()
UsageReset(this) == [promptTokens |-> 0, completionTokens |-> 0, totalTokens |-> 0]

Returned(made, from) ==
  /\ usageHeap' = made.heap
  /\ usageRefs' = Append(usageRefs, [ref |-> made.ref, from |-> from])
  /\ UNCHANGED <<loopVars, shareVars, agentVars, approvalVars, streamVars>>

UsageObjectsInit ==
  /\ pc = "calls"
  /\ aborted = FALSE
  /\ controllerAborted = FALSE
  /\ maxTurns = 0
  /\ turnsCount = 0
  /\ toolCallsCount = 0
  /\ finalText = <<>>
  /\ lastUsage = UsageEmpty
  /\ totalUsage = UsageEmpty
  /\ history = InitialMessages
  /\ text = <<>>
  /\ parsed = <<>>
  /\ toolResult = NoResult
  /\ nextUuid = 2
  /\ result = Pending
  /\ requests = 0
  /\ framesRead = 0
  /\ chunksRead = 0
  /\ chunksProcessed = 0
  /\ toolLog = <<>>
  /\ onTurnLog = <<>>
  /\ onTurnObjs = <<>>
  /\ msgTurn = <<0>>
  /\ reader = "none"
  /\ toolUseReturned = NoToolUse
  /\ onToolApprove = "function"
  /\ heap = InitialHeap
  /\ historyOf = [r \in Runs |-> NotStarted]
  /\ inOnMessage = [r \in Runs |-> FALSE]
  /\ onMessageLog = [r \in Runs |-> <<>>]
  /\ agentOpts = DefaultAgentOpts
  /\ agentTools = <<>>
  /\ usageHeap = <<>>
  /\ usageRefs = <<>>
  /\ streamBytes = <<>>
  /\ streamState = NoStreamState
  /\ approvalCtx = NoApprovalCtx
  /\ approvalNeeded = FALSE

CallEmpty ==
  /\ Len(usageRefs) < MaxUsageObjs
  /\ Returned(empty(usageHeap), "empty")

CallFromApiResponse ==
  /\ Len(usageRefs) < MaxUsageObjs
  /\ \E usage \in {ApiUsageA, ApiUsageB} :
       Returned(NewUsage(usageHeap, UsageFromApiResponse(usage)), "fromApiResponse")

CallClone(h) ==
  /\ Len(usageRefs) < MaxUsageObjs
  /\ Returned(clone(usageHeap, usageRefs[h].ref), "clone")

\* this.add(other), this and other any two of the references, also the same
CallAdd(h, o) ==
  LET this == usageRefs[h].ref
      other == usageRefs[o].ref
  IN /\ usageHeap[this].totalTokens + usageHeap[other].totalTokens <= MaxTokens
     /\ usageHeap' = [usageHeap EXCEPT
                        ![this] = UsageAdd(usageHeap[this], usageHeap[other])]
     /\ UNCHANGED <<usageRefs, loopVars, shareVars, agentVars, approvalVars,
                  streamVars>>

CallReset(h) ==
  LET this == usageRefs[h].ref
  IN /\ usageHeap' = [usageHeap EXCEPT ![this] = UsageReset(usageHeap[this])]
     /\ UNCHANGED <<usageRefs, loopVars, shareVars, agentVars, approvalVars,
                  streamVars>>

UsageObjectsNext ==
  \/ CallEmpty
  \/ CallFromApiResponse
  \/ \E h \in DOMAIN usageRefs : CallClone(h)
  \/ \E h, o \in DOMAIN usageRefs : CallAdd(h, o)
  \/ \E h \in DOMAIN usageRefs : CallReset(h)

UsageObjectsSpec == UsageObjectsInit /\ [][UsageObjectsNext]_vars

(***************************************************************************)
(* The bash tool's needsApproval on its own: the command line is drawn     *)
(* from the lines of up to MaxCommandLen words and signs.                  *)
(***************************************************************************)
MaxCommandLen == 3

ApprovalModes == {"default", "yolo"}

CommandTokens == {"a", "x", WS} \cup CommandWords

Commands == UNION {[1..n -> CommandTokens] : n \in 0..MaxCommandLen}

\* the params a call may get: an object with a command, {} and the placeholder
ApprovalParams ==
  {[err |-> "", val |-> JsonObject(<<"b">>, c)] : c \in Commands}
    \cup {EmptyParams, [err |-> "Invalid JSON", val |-> <<"x">>]}

ApprovalInit ==
  /\ pc = "ask"
  /\ approvalCtx \in [params : ApprovalParams, approvalMode : ApprovalModes]
  /\ approvalNeeded = FALSE
  /\ aborted = FALSE
  /\ controllerAborted = FALSE
  /\ maxTurns = 0
  /\ turnsCount = 0
  /\ toolCallsCount = 0
  /\ finalText = <<>>
  /\ lastUsage = UsageEmpty
  /\ totalUsage = UsageEmpty
  /\ history = InitialMessages
  /\ text = <<>>
  /\ parsed = <<>>
  /\ toolResult = NoResult
  /\ nextUuid = 2
  /\ result = Pending
  /\ requests = 0
  /\ framesRead = 0
  /\ chunksRead = 0
  /\ chunksProcessed = 0
  /\ toolLog = <<>>
  /\ onTurnLog = <<>>
  /\ onTurnObjs = <<>>
  /\ msgTurn = <<0>>
  /\ reader = "none"
  /\ toolUseReturned = NoToolUse
  /\ onToolApprove = "function"
  /\ heap = InitialHeap
  /\ historyOf = [r \in Runs |-> NotStarted]
  /\ inOnMessage = [r \in Runs |-> FALSE]
  /\ onMessageLog = [r \in Runs |-> <<>>]
  /\ agentOpts = DefaultAgentOpts
  /\ agentTools = <<>>
  /\ usageHeap = <<>>
  /\ usageRefs = <<>>
  /\ streamBytes = <<>>
  /\ streamState = NoStreamState

\* await tool.approval.needsApproval({params, approvalMode})
NeedsApprovalCall ==
  /\ pc = "ask"
  /\ approvalNeeded' = needsApproval(approvalCtx.params, approvalCtx.approvalMode)
  /\ pc' = "asked"
  /\ UNCHANGED <<aborted, controllerAborted, maxTurns, turnsCount, toolCallsCount,
                 finalText, lastUsage, totalUsage, history, text, parsed,
                 toolResult, nextUuid, result, requests, framesRead, chunksRead,
                 chunksProcessed, toolLog, onTurnLog, onTurnObjs, msgTurn, reader,
                 onToolApprove, toolUseReturned, shareVars, agentVars, usageVars,
                 approvalCtx, streamVars>>

ApprovalNext == NeedsApprovalCall

ApprovalSpec == ApprovalInit /\ [][ApprovalNext]_vars

(***************************************************************************)
(* The reading of one response body on its own: the body is a sequence of  *)
(* lines, reader.read() delivers it in chunks of any sizes, and the loop   *)
(* splits what it has at the newlines.  The signal and the usage objects   *)
(* are left to Spec.                                                       *)
(***************************************************************************)
MaxStreamLines == 2

NL == "\n"

\* the lines of a body: 'data: ' followed by a delta with content, by
\* [DONE], and a line that is no data line
StreamLines ==
  {<<"data:", "x">>, <<"data:", "m">>, <<"data:", "[DONE]">>, <<"junk">>}

\* the lines one after the other, each followed by a newline
RECURSIVE JoinTerminated(_)
JoinTerminated(lines) ==
  IF lines = <<>> THEN <<>>
  ELSE Head(lines) \o <<NL>> \o JoinTerminated(Tail(lines))

LineLists == UNION {[1..n -> StreamLines] : n \in 0..MaxStreamLines}

\* the bodies: every line ends with a newline, or all but the last one do
StreamBodies ==
  {JoinTerminated(ls) : ls \in LineLists}
    \cup {SubSeq(JoinTerminated(ls), 1, Len(JoinTerminated(ls)) - 1) :
            ls \in LineLists \ {<<>>}}

\* buffer.split('\n')
RECURSIVE SplitLines(_)
SplitLines(s) ==
  IF \E k \in 1..Len(s) : s[k] = NL
  THEN LET k == CHOOSE k \in 1..Len(s) : s[k] = NL /\ \A j \in 1..(k - 1) : s[j] # NL
       IN <<SubSeq(s, 1, k - 1)>> \o SplitLines(SubSeq(s, k + 1, Len(s)))
  ELSE <<s>>

\* what one line adds to text: the delta's content of a 'data: ' line whose
\* data parses, nothing for [DONE], for data that does not parse and for
\* other lines
LineDelta(line) ==
  IF Len(line) >= 1 /\ line[1] = "data:"
  THEN LET data == Tail(line)
       IN IF data = <<"[DONE]">> THEN <<>>
          ELSE IF Len(data) = 1 /\ data[1] \in Letters THEN data
          ELSE <<>>
  ELSE <<>>

\* the for loop over the lines: text += textDelta, onTextDelta(textDelta)
RECURSIVE ProcessStreamLines(_, _)
ProcessStreamLines(lines, st) ==
  IF lines = <<>> THEN st
  ELSE ProcessStreamLines(
         Tail(lines),
         IF LineDelta(Head(lines)) # <<>>
         THEN [st EXCEPT !.text = @ \o LineDelta(Head(lines)),
                         !.deltas = Append(@, LineDelta(Head(lines)))]
         ELSE st)

\* lines without the piece lines.pop() took off
CompleteLines(lines) == SubSeq(lines, 1, Len(lines) - 1)

StreamInit ==
  /\ pc = "streaming"
  /\ streamBytes \in StreamBodies
  /\ streamState = NoStreamState
  /\ approvalCtx = NoApprovalCtx
  /\ approvalNeeded = FALSE
  /\ aborted = FALSE
  /\ controllerAborted = FALSE
  /\ maxTurns = 0
  /\ turnsCount = 0
  /\ toolCallsCount = 0
  /\ finalText = <<>>
  /\ lastUsage = UsageEmpty
  /\ totalUsage = UsageEmpty
  /\ history = InitialMessages
  /\ text = <<>>
  /\ parsed = <<>>
  /\ toolResult = NoResult
  /\ nextUuid = 2
  /\ result = Pending
  /\ requests = 0
  /\ framesRead = 0
  /\ chunksRead = 0
  /\ chunksProcessed = 0
  /\ toolLog = <<>>
  /\ onTurnLog = <<>>
  /\ onTurnObjs = <<>>
  /\ msgTurn = <<0>>
  /\ reader = "none"
  /\ toolUseReturned = NoToolUse
  /\ onToolApprove = "function"
  /\ heap = InitialHeap
  /\ historyOf = [r \in Runs |-> NotStarted]
  /\ inOnMessage = [r \in Runs |-> FALSE]
  /\ onMessageLog = [r \in Runs |-> <<>>]
  /\ agentOpts = DefaultAgentOpts
  /\ agentTools = <<>>
  /\ usageHeap = <<>>
  /\ usageRefs = <<>>

\* reader.read() delivers the next n characters: buffer += chunk, split,
\* buffer = lines.pop(), the for loop over the lines
StreamRead ==
  /\ pc = "streaming"
  /\ streamState.pos < Len(streamBytes)
  /\ \E n \in 1..(Len(streamBytes) - streamState.pos) :
       LET chunk == SubSeq(streamBytes, streamState.pos + 1, streamState.pos + n)
           lines == SplitLines(streamState.buffer \o chunk)
       IN streamState' =
            ProcessStreamLines(CompleteLines(lines),
                               [streamState EXCEPT !.pos = @ + n,
                                                   !.buffer = lines[Len(lines)]])
  /\ UNCHANGED <<streamBytes, loopVars, shareVars, agentVars, usageVars,
                 approvalVars>>

\* reader.read() reports done: break, with whatever is left in buffer
StreamEnd ==
  /\ pc = "streaming"
  /\ streamState.pos = Len(streamBytes)
  /\ pc' = "streamed"
  /\ UNCHANGED <<aborted, controllerAborted, maxTurns, turnsCount, toolCallsCount,
                 finalText, lastUsage, totalUsage, history, text, parsed,
                 toolResult, nextUuid, result, requests, framesRead, chunksRead,
                 chunksProcessed, toolLog, onTurnLog, onTurnObjs, msgTurn, reader,
                 onToolApprove, toolUseReturned, restVars>>

StreamNext == StreamRead \/ StreamEnd

StreamSpec == StreamInit /\ [][StreamNext]_vars

(***************************************************************************)
(* Properties.                                                             *)
(***************************************************************************)
\* the positions <<message, item>> of the content items of a message list
ItemPositions(messages) ==
  UNION {{<<i, k>> : k \in 1..Len(messages[i].content)} : i \in 1..Len(messages)}

ItemAt(messages, pos) == messages[pos[1]].content[pos[2]]

\* the tool_result items with the given id that lie after message i
ResultsAfter(messages, i, id) ==
  {pos \in ItemPositions(messages) :
     /\ pos[1] > i
     /\ ItemAt(messages, pos).type = "tool_result"
     /\ ItemAt(messages, pos).id = id}

LastMessage == history[Len(history)]

\* the last message is the tool_result of a missing or throwing tool
LastIsRecoveredError ==
  /\ Len(LastMessage.content) = 1
  /\ LastMessage.content[1].type = "tool_result"
  /\ LastMessage.content[1].result.llmContent
       \in {"Error: Tool not found", "Error executing tool"}

\* the last message of history is a single tool_result for the given id
LastIsResultFor(messages, id) ==
  /\ Len(messages[Len(messages)].content) = 1
  /\ messages[Len(messages)].content[1].type = "tool_result"
  /\ messages[Len(messages)].content[1].id = id

InvokedInTurn(log, turn) == {i \in 1..Len(log) : log[i].turn = turn}

RECURSIVE UsageSum(_)
UsageSum(log) ==
  IF log = <<>> THEN [promptTokens |-> 0, completionTokens |-> 0, totalTokens |-> 0]
  ELSE LET rest == UsageSum(Tail(log))
       IN [promptTokens |-> Head(log).promptTokens + rest.promptTokens,
           completionTokens |-> Head(log).completionTokens + rest.completionTokens,
           totalTokens |-> Head(log).totalTokens + rest.totalTokens]

\* C1: whenever a model request has just been issued or the run has returned,
\* every tool_use item of History has exactly one tool_result item with the
\* same id after it.
C1_EveryToolUseAnswered ==
  pc \in {"fetch", "done"} =>
    \A pos \in ItemPositions(history) :
      ItemAt(history, pos).type = "tool_use" =>
        Cardinality(ResultsAfter(history, pos[1], ItemAt(history, pos).id)) = 1

\* C2: at most maxTurns requests are issued, none with the turn counter above
\* maxTurns, and the run has returned max_turns_exceeded exactly when the
\* counter stands at maxTurns + 1.
C2_TurnBudget ==
  /\ requests <= maxTurns
  /\ turnsCount <= maxTurns + 1
  /\ pc \in {"fetch", "read"} => turnsCount <= maxTurns /\ requests = turnsCount
  /\ (turnsCount = maxTurns + 1) <=>
       (pc = "done" /\ result.type = "max_turns_exceeded")

C2_Witness ==
  /\ pc = "done"
  /\ result.type = "max_turns_exceeded"
  /\ maxTurns = 2
  /\ requests = 2
  /\ Len(toolLog) = 2

\* C3 as stated: after a denial the tool function is not invoked, and a run
\* that returned tool_denied made no further request and left as the last
\* message one tool_result with the tool use's id and isError true.
C3_DenialRecordsError ==
  /\ pc = "denied" => InvokedInTurn(toolLog, turnsCount) = {}
  /\ (pc = "done" /\ result.type = "tool_denied") =>
       /\ InvokedInTurn(toolLog, turnsCount) = {}
       /\ requests = turnsCount
       /\ LastIsResultFor(history, ActedToolUse.callId)
       /\ Cardinality(ResultsAfter(history, 0, ActedToolUse.callId)) = 1
       /\ LastMessage.content[1].result.isError

\* C3 amended: from a denial on, no tool function is invoked and no request is
\* issued; the only result the run returns is tool_denied, and it does so with
\* exactly one message appended, the tool_result with the tool use's id whose
\* result is what onToolResult resolved to: isError is true whenever that is
\* the rejection payload handed to it.
C3_DenialRecordsHostResult ==
  [][pc = "denied" =>
       /\ toolLog' = toolLog
       /\ requests' = requests
       /\ pc' \in {"denied", "done", "rejected"}
       /\ pc' = "done" =>
            /\ result'.type = "tool_denied"
            /\ Len(history') = Len(history) + 1
            /\ SubSeq(history', 1, Len(history)) = history
            /\ LastIsResultFor(history', ActedToolUse.callId)
            /\ Cardinality(ResultsAfter(history', 0, ActedToolUse.callId)) = 1
            /\ history'[Len(history')].content[1].result = toolResult'
            /\ (toolResult' = toolResult => toolResult'.isError)]_vars

C3_Witness ==
  /\ pc = "done"
  /\ result.type = "tool_denied"
  /\ LastIsResultFor(history, ActedToolUse.callId)
  /\ LastMessage.content[1].result.isError
  /\ toolLog = <<>>

\* C4: when the signal is aborted while the stream is being read and the next
\* chunk then arrives, the run returns canceled at once: History is left as
\* it is and no tool function has been invoked in the turn.
C4_AbortBetweenChunks ==
  [][(pc = "read" /\ aborted /\ chunksRead' = chunksRead + 1) =>
       /\ pc' = "done"
       /\ result'.success = FALSE
       /\ result'.type = "canceled"
       /\ history' = history
       /\ text' = text
       /\ InvokedInTurn(toolLog', turnsCount') = {}]_vars

C4_Witness ==
  /\ pc = "done"
  /\ result.type = "canceled"
  /\ chunksProcessed = 1
  /\ chunksRead = 2
  /\ FirstToolUse(parseMessage(text)) # 0

\* C5: a run during which (or before which) the signal was aborted returns
\* canceled; in particular it never returns success.
C5_AbortNeverSucceeds ==
  (pc = "done" /\ aborted) => (result.type = "canceled" \/ ~result.success)

\* C6: the promise of runLoop never rejects.
C6_NeverRejects == pc # "rejected"

\* C7: once the usage of the current turn has been handed to onTurn,
\* totalUsage is the pointwise sum of the values handed to onTurn so far.
C7_UsageAdditive ==
  Len(onTurnLog) = turnsCount => totalUsage = UsageSum(onTurnLog)

C9_OneToolAtATime ==
  /\ \A i, j \in 1..Len(toolLog) : i < j => toolLog[i].turn < toolLog[j].turn
  /\ \A i \in 1..Len(toolLog) :
       \E m \in 1..Len(history) :
         /\ msgTurn[m] = toolLog[i].turn
         /\ history[m].role = "assistant"
         /\ \E k \in 1..Len(history[m].content) :
              /\ history[m].content[k].type = "tool_use"
              /\ history[m].content[k].id = toolLog[i].callId
              /\ history[m].content[k].name = toolLog[i].name
              /\ \A l \in 1..(k - 1) : history[m].content[l].type # "tool_use"
  /\ \A i \in 1..(Len(toolLog) - 1) :
       ResultsAfter(history, 0, toolLog[i].callId) # {}
  /\ pc \notin {"tool", "toolResult"} =>
       \A i \in 1..Len(toolLog) : ResultsAfter(history, 0, toolLog[i].callId) # {}

C9_Witness ==
  /\ pc = "tool"
  /\ Len(parsed) = 2
  /\ parsed[1].type = "tool_use"
  /\ parsed[2].type = "tool_use"
  /\ parsed[1].name # parsed[2].name
  /\ toolLog[Len(toolLog)].name = parsed[1].name

\* C10: the messages of History are in turn order, a turn's assistant message
\* comes before the turn's tool_result messages, and every tool_result lies
\* after the assistant message that holds the tool_use with its id.
C10_HistoryOrder ==
  /\ Len(msgTurn) = Len(history)
  /\ \A i, j \in 1..Len(history) : i < j => msgTurn[i] <= msgTurn[j]
  /\ \A i, j \in 1..Len(history) :
       (i < j /\ msgTurn[i] = msgTurn[j] /\ msgTurn[i] > 0) =>
         /\ history[j].role = "user"
         /\ history[j].content[1].type = "tool_result"
  /\ \A i \in 1..Len(history) :
       (msgTurn[i] > 0 /\ history[i].role = "user") =>
         \E j \in 1..(i - 1) :
           /\ history[j].role = "assistant"
           /\ msgTurn[j] = msgTurn[i]
  /\ \A pos \in ItemPositions(history) :
       ItemAt(history, pos).type = "tool_result" =>
         \E prior \in ItemPositions(history) :
           /\ prior[1] < pos[1]
           /\ history[prior[1]].role = "assistant"
           /\ ItemAt(history, prior).type = "tool_use"
           /\ ItemAt(history, prior).id = ItemAt(history, pos).id

C10_Witness ==
  /\ Len(history) = 5
  /\ msgTurn = <<0, 1, 1, 2, 2>>
  /\ history[5].content[1].type = "tool_result"

\* C11: in every step of a run the message list of History keeps its previous
\* contents as an unchanged prefix, so its length never decreases and no
\* message is removed, replaced or reordered.
C11_AppendOnly ==
  [][/\ Len(history') >= Len(history)
     /\ SubSeq(history', 1, Len(history)) = history]_vars

C11_Witness ==
  /\ pc = "done"
  /\ result.type = "success"
  /\ Len(history) = 4
  /\ history[3].content[1].type = "tool_result"

\* the messages of run r's History that were not in the input
AppendedTo(r) ==
  SubSeq(heap[historyOf[r]], Len(InputArray) + 1, Len(heap[historyOf[r]]))

\* C12: a run's History holds, after the input, only messages that run
\* appended, also when another run was started with the same Message[], and
\* the array the caller passed as input is left as the caller made it.
C12_OwnHistory ==
  /\ heap[InputRef] = InputArray
  /\ \A r \in Runs :
       historyOf[r] # NotStarted =>
         \A i \in 1..Len(AppendedTo(r)) :
           AppendedTo(r)[i].content[1].text[1] = RunLetter(r)

\* C13: every failure result, whatever its type, has details that hold the
\* History and the total usage of the run.
C13_FailureDetails ==
  (pc = "done" /\ ~result.success) => {"history", "usage"} \subseteq result.details

\* C14: every result, success or failure, carries the metadata record
\* (turnsCount, toolCallsCount, duration).
C14_MetadataAlways == pc = "done" => result.metadata

\* C15: a run returns success only from a turn whose parsed list has no
\* tool_use, and the text it returns is the text of that turn's first text
\* block, empty when the turn has none.
C15_SuccessText ==
  (pc = "done" /\ result.success) =>
    /\ FirstToolUse(parsed) = 0
    /\ result.text = IF FirstText(parsed) # 0
                     THEN parsed[FirstText(parsed)].content ELSE <<>>

\* C16: the execute function of a tool is called only with params that
\* satisfy the tool's schema; params that violate it, the {_error, _raw}
\* placeholder included, never reach execute.
C16_ExecuteOnlyValid ==
  pc = "tool" => SchemaAccepts(ActedToolUse.params)

\* C17: a tool call for which needsApproval returns true, whatever the
\* approval mode, is executed only if onToolApprove was configured and
\* returned true for it.
C17_NoExecutionWithoutApproval ==
  (pc = "tool" /\ \A mode \in ApprovalModes : needsApproval(ActedToolUse.params, mode))
    => onToolApprove = "function"

\* C18: once the reader of a response body was acquired, the run is past the
\* stream (or has returned) only with the reader released or cancelled.
C18_ReaderReleased ==
  (reader # "none" /\ pc \notin {"fetch", "read"}) =>
    reader \in {"released", "cancelled"}

\* parse(J) as a tool_use carries it
ParsedJson(J) == [err |-> "", val |-> Trim(J)]

\* C19: for every input T1 <use_tool><tool_name>N</tool_name><arguments>J
\* </arguments></use_tool> T2 with T1 and T2 non-blank and tag-free and J valid
\* JSON, parseMessage returns exactly three blocks: text(trim(T1)),
\* tool_use(name = trim(N), params = parse(J), partial = false), text(trim(T2)).
C19_WellFormedRoundTrip ==
  pc = "parsed" =>
    \A T1 \in PlainTexts, N \in ToolNames, J \in JsonTexts, T2 \in PlainTexts :
      text = WellFormed(T1, N, J, T2) =>
        /\ Len(parsed) = 3
        /\ parsed[1].type = "text"
        /\ parsed[1].content = Trim(T1)
        /\ parsed[2].type = "tool_use"
        /\ parsed[2].name = Trim(N)
        /\ parsed[2].params = ParsedJson(J)
        /\ parsed[2].partial = FALSE
        /\ parsed[3].type = "text"
        /\ parsed[3].content = Trim(T2)

\* the first n tokens of the tool invocation with name N and arguments J
CutCall(N, J, n) == SubSeq(ToolCallText(N, J), 1, n)

\* the part of a value that lies before the first occurrence of its closing
\* tag, the whole of it without one
RECURSIVE UpTo(_, _)
UpTo(s, tag) ==
  IF s = <<>> \/ Head(s) = tag THEN <<>> ELSE <<Head(s)>> \o UpTo(Tail(s), tag)

\* the name text and the arguments text of CutCall(N, J, n) as far as they go
NameSeen(N, n) == SubSeq(N, 1, IF n - 2 < Len(N) THEN (IF n < 2 THEN 0 ELSE n - 2) ELSE Len(N))
ArgumentsSeen(N, J, n) ==
  UpTo(SubSeq(J \o <<ARGUMENTS_CLOSE>>, 1,
              IF n - (Len(N) + 4) < 0 THEN 0
              ELSE IF n - (Len(N) + 4) > Len(J) + 1 THEN Len(J) + 1
              ELSE n - (Len(N) + 4)),
       ARGUMENTS_CLOSE)
ArgumentsClosed(N, J, n) ==
  \E k \in (Len(N) + 5)..n : ToolCallText(N, J)[k] = ARGUMENTS_CLOSE

\* the tool_use blocks of a list that are not partial
ClosedToolUses(blocks) ==
  {k \in 1..Len(blocks) : blocks[k].type = "tool_use" /\ ~blocks[k].partial}

\* C20: when the input ends inside a tool invocation, the last block
\* parseMessage returns is that invocation as a tool_use with partial = true,
\* with the name and the arguments read so far; and a tool_use has
\* partial = false only if a </use_tool> tag occurs in the input.
C20_UnclosedToolUseIsPartial ==
  pc = "parsed" =>
    /\ \A T1 \in PlainTexts, N \in ToolNames, J \in JsonTexts :
         \A n \in 1..(Len(ToolCallText(N, J)) - 1) :
           text = T1 \o CutCall(N, J, n) =>
             /\ Len(parsed) >= 1
             /\ parsed[Len(parsed)].type = "tool_use"
             /\ parsed[Len(parsed)].partial = TRUE
             /\ parsed[Len(parsed)].name = Trim(NameSeen(N, n))
             /\ parsed[Len(parsed)].params =
                  ParseArguments(ArgumentsSeen(N, J, n),
                                 IF ArgumentsClosed(N, J, n)
                                 THEN "Invalid JSON" ELSE "Incomplete JSON")
    /\ ClosedToolUses(parsed) # {} => \E k \in 1..Len(text) : text[k] = TOOL_USE_CLOSE

C20_Witness ==
  /\ pc = "parsed"
  /\ text = <<"x">> \o CutCall(<<"a">>, JsonObject(<<"b">>, <<"x">>), 9)
  /\ Len(parsed) = 2
  /\ parsed[2].partial = TRUE
  /\ parsed[2].name = <<"a">>
  /\ parsed[2].params.err = "Incomplete JSON"

\* a value parseMessage may return: a list of text and tool_use blocks
IsBlockList(blocks) ==
  /\ DOMAIN blocks = 1..Len(blocks)
  /\ \A k \in 1..Len(blocks) :
       /\ blocks[k].type \in {"text", "tool_use"}
       /\ blocks[k].partial \in BOOLEAN
       /\ blocks[k].type = "text" => blocks[k].content # <<>>

\* neither JSON.parse nor JSON.parse after repairJson accepts the text
FailsBothParses(t) == t # <<>> /\ ~JsonParses(t) /\ ~JsonParses(repairJson(t))

\* the input before its first <use_tool>, and from that tag on
RECURSIVE BeforeCall(_)
BeforeCall(s) ==
  IF s = <<>> \/ Head(s) = TOOL_USE_OPEN THEN <<>>
  ELSE <<Head(s)>> \o BeforeCall(Tail(s))
FromCall(s) == SubSeq(s, Len(BeforeCall(s)) + 1, Len(s))

\* how much of the invocation with name N and arguments A the input holds,
\* 0 if the input is not of the shape T1, invocation cut anywhere, T2
CallTokens(s, N, A) ==
  LET call == ToolCallText(N, A)
      rest == FromCall(s)
      n == IF Len(rest) < Len(call) THEN Len(rest) ELSE Len(call)
  IN IF /\ BeforeCall(s) \in PlainTexts
        /\ n > 0
        /\ SubSeq(rest, 1, n) = SubSeq(call, 1, n)
        /\ Len(rest) > n => SubSeq(rest, n + 1, Len(rest)) \in PlainTexts
     THEN n ELSE 0

\* C21: parseMessage returns a block list for every input, and whenever the
\* arguments text read so far fails the strict and the repaired parse, the
\* tool_use block's params is the {_error, _raw} placeholder with _raw the
\* trimmed arguments text, for a closed and for an unterminated field.
C21_ParseFailureIsPlaceholder ==
  pc = "parsed" =>
    /\ IsBlockList(parsed)
    /\ \A N \in ToolNames, A \in ArgumentTexts :
         LET n == CallTokens(text, N, A)
         IN (n > 0 /\ FailsBothParses(Trim(ArgumentsSeen(N, A, n)))) =>
              /\ FirstToolUse(parsed) # 0
              /\ parsed[FirstToolUse(parsed)].params.err
                   = (IF ArgumentsClosed(N, A, n)
                      THEN "Invalid JSON" ELSE "Incomplete JSON")
              /\ parsed[FirstToolUse(parsed)].params.val
                   = Trim(ArgumentsSeen(N, A, n))

\* a closed arguments field that is beyond repair
C21_Witness ==
  /\ pc = "parsed"
  /\ text = WellFormed(<<"x">>, <<"a">>, <<WS, "x", WS>>, <<"x">>)
  /\ Len(parsed) = 3
  /\ parsed[2].params = [err |-> "Invalid JSON", val |-> <<"x">>]

\* how often the character c occurs in s
Occurrences(s, c) == Cardinality({k \in 1..Len(s) : s[k] = c})

\* the text a block holds: the content of a text block, the name and the
\* arguments of a tool_use block
RECURSIVE BlocksText(_)
BlocksText(blocks) ==
  IF blocks = <<>> THEN <<>>
  ELSE Head(blocks).content \o Head(blocks).name
         \o (IF Head(blocks).type = "tool_use" THEN Head(blocks).params.val ELSE <<>>)
         \o BlocksText(Tail(blocks))

\* C22: the blocks parseMessage returns cover the input: every character of
\* the input that is neither a blank nor part of a tag is held by some block,
\* also a character inside <use_tool> that lies outside the tool_name and
\* arguments fields.
C22_BlocksCoverInput ==
  pc = "parsed" =>
    \A c \in Letters : Occurrences(text, c) <= Occurrences(BlocksText(parsed), c)

\* what the claim says of a text t without its closing brace
RepairedAsClaimed(t) ==
  (IF t[1] # "{" THEN <<"{">> ELSE <<>>) \o t
    \o (IF QuoteCount(t) % 2 = 1 THEN <<QUOTE>> ELSE <<>>) \o <<"}">>

\* C23: for arguments text that does not parse and lacks its closing brace,
\* repairJson prepends { when the text does not start with it, appends a
\* double quote exactly when the number of double quotes is odd, then appends
\* }; when the result parses it is what the tool_use block's params holds.
C23_RepairCompletesArguments ==
  pc = "parsed" =>
    \A N \in ToolNames, A \in ArgumentTexts :
      LET n == CallTokens(text, N, A)
          t == Trim(ArgumentsSeen(N, A, n))
      IN (n > 0 /\ t # <<>> /\ t[Len(t)] # "}" /\ ~JsonParses(t)) =>
           /\ repairJson(t) = RepairedAsClaimed(t)
           /\ JsonParses(RepairedAsClaimed(t)) =>
                parsed[FirstToolUse(parsed)].params
                  = [err |-> "", val |-> RepairedAsClaimed(t)]

\* the text {"b":"x of a closed arguments field becomes {"b":"x"}
C23_Witness ==
  /\ pc = "parsed"
  /\ text = WellFormed(<<"x">>, <<"a">>,
                       <<"{">> \o JsonString(<<"b">>) \o <<":", QUOTE, "x">>, <<"x">>)
  /\ Len(parsed) = 3
  /\ parsed[2].params = [err |-> "", val |-> JsonObject(<<"b">>, <<"x">>)]

\* the names of a tool list
ToolNamesOf(tools) == {tools[k].name : k \in 1..Len(tools)}

\* C24: the created agent has the five read tools whatever the options, the
\* write, edit and bash tools exactly when the write flag is set, and the two
\* todo tools exactly when the todo flag is set and a session id was given.
C24_ToolsFollowFlags ==
  pc = "created" =>
    /\ {"read", "ls", "glob", "grep", "fetch"} \subseteq ToolNamesOf(agentTools)
    /\ \A name \in {"write", "edit", "bash"} :
         name \in ToolNamesOf(agentTools) <=> agentOpts.enableWrite = "true"
    /\ \A name \in {"todo_read", "todo_write"} :
         name \in ToolNamesOf(agentTools) <=>
           (agentOpts.enableTodo = "true"
              /\ agentOpts.sessionId \notin {"undefined", ""})
    /\ Len(agentTools) = Cardinality(ToolNamesOf(agentTools))

\* enableTodo without a session id: no todo tool
C24_Witness ==
  /\ pc = "created"
  /\ agentOpts = DefaultAgentOpts
  /\ ToolNamesOf(agentTools)
       = {"read", "ls", "glob", "grep", "fetch", "write", "edit", "bash"}

\* the messages of run r's array that run r appended, in order
AppendedBy(r) ==
  SelectSeq(AppendedTo(r), LAMBDA m : m.content[1].text[1] = RunLetter(r))

\* the message came to addMessage with a uuid, with a timestamp
CameWithUuid(m) == \E k \in 1..Len(m.content[1].text) : m.content[1].text[k] = "u"
CameWithTimestamp(m) == \E k \in 1..Len(m.content[1].text) : m.content[1].text[k] = "t"

\* what the stored messages and the onMessage calls of every run look like
OnMessagePerAppend ==
  \A r \in Runs :
    historyOf[r] # NotStarted =>
      /\ onMessageLog[r] = AppendedBy(r)
      /\ \A i \in 1..Len(AppendedBy(r)) :
           LET m == AppendedBy(r)[i]
           IN /\ m.uuid # 0
              /\ m.timestamp # ""
              /\ CameWithUuid(m) <=> m.uuid = SuppliedUuid
              /\ CameWithTimestamp(m) <=> m.timestamp = SuppliedTimestamp

\* C25: addMessage gives a message a uuid and a timestamp only when it has
\* none and keeps supplied ones; onMessage is called once per appended message,
\* in append order, with the message as stored; and while the onMessage call
\* of a run is under way that run appends nothing and calls onMessage for
\* nothing else, so its next step waits for onMessage to complete.
C25_OnMessageAwaited ==
  /\ []OnMessagePerAppend
  /\ [][\A r \in Runs :
          inOnMessage[r] => onMessageLog'[r] = onMessageLog[r]]_vars

C25_Witness ==
  /\ historyOf[1] = FreshRef(1)
  /\ ~inOnMessage[1]
  /\ Len(onMessageLog[1]) = 2
  /\ onMessageLog[1][1].uuid = SuppliedUuid
  /\ onMessageLog[1][2].uuid = GeneratedUuid(1, 2)
  /\ onMessageLog[1][2].timestamp = SuppliedTimestamp

\* C26: from the approval to the recording of the result, the tool use the
\* run works with has the name and the params that onToolUse returned.
C26_ReturnedToolUseIsUsed ==
  pc \in {"approve", "tool", "toolResult", "denied"} =>
    /\ ActedToolUse.name = toolUseReturned.name
    /\ ActedToolUse.params = toolUseReturned.params

\* Usage.isValid
isValid(usage) ==
  /\ usage.promptTokens >= 0
  /\ usage.completionTokens >= 0
  /\ usage.totalTokens >= 0

\* C27: whatever usage objects the endpoint sends, lastUsage and totalUsage
\* have no negative field.
C27_UsageNonNegative == isValid(lastUsage) /\ isValid(totalUsage)

\* the field values of the object a returned reference points to
UsageAt(heapNow, h) == heapNow[usageRefs[h].ref]

\* C28: an add or a reset called on one Usage object leaves the field values
\* of every other object the calls returned (the results of empty(), the
\* clones, the argument of add) as they were.
C28_UsageObjectsIndependent ==
  [][\A h \in DOMAIN usageRefs :
       ((\E o \in DOMAIN usageRefs : CallAdd(h, o)) \/ CallReset(h)) =>
         \A k \in DOMAIN usageRefs \ {h} :
           UsageAt(usageHeap', k) = UsageAt(usageHeap, k)]_vars

\* two results of empty() and a clone of the first, after add calls on the first
C28_Witness ==
  /\ Len(usageRefs) = 3
  /\ usageRefs[1].from = "empty"
  /\ usageRefs[2].from = "fromApiResponse"
  /\ usageRefs[3].from = "empty"
  /\ UsageAt(usageHeap, 1) = UsageAdd(UsageAt(usageHeap, 2), UsageAt(usageHeap, 2))
  /\ UsageAt(usageHeap, 2) # UsageEmpty
  /\ UsageAt(usageHeap, 3) = UsageEmpty

\* the ways a run may end: a turn without tool use, the turn budget, a
\* denial, a failure of the request or the stream, cancellation
EndedAsListed ==
  /\ pc = "done"
  /\ \/ result.success /\ result.type = "success" /\ FirstToolUse(parsed) = 0
     \/ /\ ~result.success
        /\ result.type \in {"max_turns_exceeded", "tool_denied", "api_error",
                            "canceled"}

\* the run has ended, by a returned result or by a rejected promise
Ended == pc \in {"done", "rejected"}

\* C29: a run that has ended has returned a result, and the result is one of
\* the listed endings (no run ends in another way).
C29_EndsAsListed == Ended => EndedAsListed


\* the blocks of a list that are not partial, in order
RECURSIVE Complete(_)
Complete(blocks) ==
  IF blocks = <<>> THEN <<>>
  ELSE IF Head(blocks).partial THEN Complete(Tail(blocks))
  ELSE <<Head(blocks)>> \o Complete(Tail(blocks))

IsPrefixOf(s, t) == Len(s) <= Len(t) /\ SubSeq(t, 1, Len(s)) = s

\* C30: for every prefix of the input, the blocks parseMessage returns for
\* the prefix that are not partial are, in order and with the same contents,
\* the first blocks parseMessage returns for the whole input.
C30_StableUnderGrowth ==
  pc = "parsed" =>
    \A p \in Prefixes(text) : IsPrefixOf(Complete(parseMessage(p)), parsed)

\* an input that goes on after a closed invocation: a proper prefix already
\* has a complete text block and a complete tool_use, and the whole input
\* has a block more
C30_Witness ==
  /\ pc = "parsed"
  /\ Len(parsed) = 3
  /\ \E n \in 1..(Len(text) - 1) :
       /\ Len(Complete(parseMessage(SubSeq(text, 1, n)))) = 2
       /\ Len(parseMessage(SubSeq(text, 1, n))) = 2
       /\ parsed[2].type = "tool_use"


IsBlank(s) == \A i \in 1..Len(s) : s[i] = WS

\* text[i..j] is a source span outside the invocations with its blank ends
\* taken off: it starts and ends with a non-blank character, and only blank
\* characters lie between it and the tags (or the ends of the input) around it
IsTrimmedSpan(s, i, j) ==
  /\ 1 <= i /\ i <= j /\ j <= Len(s)
  /\ s[i] # WS /\ s[j] # WS
  /\ \A k \in i..j : s[k] \notin {TOOL_USE_OPEN, TOOL_USE_CLOSE}
  /\ \E l \in 1..i :
       /\ l = 1 \/ s[l - 1] = TOOL_USE_CLOSE
       /\ IsBlank(SubSeq(s, l, i - 1))
  /\ \E r \in j..Len(s) :
       /\ r = Len(s) \/ s[r + 1] = TOOL_USE_OPEN
       /\ IsBlank(SubSeq(s, j + 1, r))

BlockTypes(blocks) == [k \in 1..Len(blocks) |-> blocks[k].type]

\* the block types two invocations give: a text block for each span around
\* them that is not blank
TwoCallTypes(H, G, T) ==
  (IF IsBlank(H) THEN <<>> ELSE <<"text">>) \o <<"tool_use">>
    \o (IF IsBlank(G) THEN <<>> ELSE <<"text">>) \o <<"tool_use">>
    \o (IF IsBlank(T) THEN <<>> ELSE <<"text">>)

\* C31: every text block parseMessage returns is a source span with its blank
\* ends taken off, and is not empty; a blank span before, between or after
\* invocations gives no block, so two invocations with only blanks between
\* them give adjacent tool_use blocks.
C31_TextBlocksTrimmed ==
  pc = "parsed" =>
    /\ \A k \in 1..Len(parsed) :
         parsed[k].type = "text" =>
           /\ parsed[k].content # <<>>
           /\ \E i, j \in 1..Len(text) :
                /\ IsTrimmedSpan(text, i, j)
                /\ parsed[k].content = SubSeq(text, i, j)
    /\ \A H \in {<<>>, <<WS>>}, G \in GapTexts, T \in GapTexts :
         text = TwoCalls(H, G, T) => BlockTypes(parsed) = TwoCallTypes(H, G, T)

\* two invocations with a blank between them and padded text after them
C31_Witness ==
  /\ pc = "parsed"
  /\ text = TwoCalls(<<WS>>, <<WS>>, <<WS, "x">>)
  /\ BlockTypes(parsed) = <<"tool_use", "tool_use", "text">>
  /\ parsed[3].content = <<"x">>


\* the messages the current turn appended so far
TurnMessages == {i \in 1..Len(history) : msgTurn[i] = turnsCount}

\* the last message of History is the tool_result message appended in turn k
EndsWithResultOf(k) ==
  /\ msgTurn[Len(history)] = k
  /\ history[Len(history)].role = "user"
  /\ history[Len(history)].content[1].type = "tool_result"

\* the item of an assistant message that stands for a parsed block
ItemStandsFor(item, block) ==
  /\ item.type = block.type
  /\ block.type = "text" => item.text = block.content
  /\ block.type = "tool_use" =>
       item.id = block.callId /\ item.name = block.name /\ item.input = block.params

\* the last message of History is this turn's assistant message, holding
\* the whole parsed list
EndsWithAssistantOfTurn ==
  LET m == history[Len(history)]
  IN /\ TurnMessages = {Len(history)}
     /\ m.role = "assistant"
     /\ Len(m.content) = Len(parsed)
     /\ \A i \in 1..Len(parsed) : ItemStandsFor(m.content[i], parsed[i])

ExecutedInTurn == {i \in 1..Len(toolLog) : toolLog[i].turn = turnsCount}

\* C32: the steps of a turn come in one order. Up to onTurn nothing of the
\* turn is in History and onTurn was called once for each earlier turn; onTurn
\* sees every tool_use block with its callId; the assistant message with the
\* whole parsed list is appended after the one onTurn call of the turn and
\* before onToolUse, approval and execution; the tool runs before its result
\* is appended; and the next turn starts only after the tool_result of this
\* one is the last message of History.
C32_StepOrder ==
  /\ pc \in {"fetch", "read", "onText", "onTurn"} =>
       /\ Len(onTurnLog) = turnsCount - 1
       /\ TurnMessages = {}
       /\ ExecutedInTurn = {}
       /\ turnsCount > 1 => EndsWithResultOf(turnsCount - 1)
  /\ pc = "onTurn" =>
       \A i \in 1..Len(parsed) : parsed[i].type = "tool_use" => parsed[i].callId # 0
  /\ pc = "addAssistant" =>
       /\ Len(onTurnLog) = turnsCount
       /\ TurnMessages = {}
       /\ ExecutedInTurn = {}
  /\ pc \in {"onToolUse", "approve", "denied"} =>
       /\ Len(onTurnLog) = turnsCount
       /\ EndsWithAssistantOfTurn
       /\ ExecutedInTurn = {}
  /\ pc \in {"tool", "toolResult"} =>
       /\ EndsWithAssistantOfTurn
       /\ ExecutedInTurn = {Len(toolLog)}
  /\ pc = "top" /\ turnsCount > 0 =>
       /\ Len(onTurnLog) = turnsCount
       /\ EndsWithResultOf(turnsCount)
       /\ Cardinality(ExecutedInTurn) <= 1

\* a second turn under way after a first turn that ran its tool
C32_Witness ==
  /\ pc = "toolResult"
  /\ turnsCount = 2
  /\ Len(toolLog) = 2
  /\ Len(history) = 4
  /\ EndsWithAssistantOfTurn


\* C33: toApiMessages gives one {role, content} entry for each stored
\* message, in the same order and with the same role, each entry made from
\* its message alone; the request that uses it leaves the stored messages
\* as they were.
C33_ApiMessagesPerMessage ==
  /\ Len(toApiMessages(history)) = Len(history)
  /\ \A i \in 1..Len(history) :
       /\ DOMAIN toApiMessages(history)[i] = {"role", "content"}
       /\ toApiMessages(history)[i].role = history[i].role
       /\ toApiMessages(history)[i] = toApiMessages(<<history[i]>>)[1]
       /\ \A k \in 1..Len(history[i].content) :
            history[i].content[k].type = "tool_use" =>
              \E n \in 1..Len(toApiMessages(history)[i].content) :
                toApiMessages(history)[i].content[n] = TOOL_USE_OPEN

\* the second request was built from a History that holds the input, an
\* assistant message with a tool_use item and the tool_result message
C33_Witness ==
  /\ pc = "fetch"
  /\ requests = 2
  /\ Len(history) = 3
  /\ \E k \in 1..Len(history[2].content) : history[2].content[k].type = "tool_use"
  /\ history[3].content[1].type = "tool_result"
  /\ toApiMessages(history)[2].content[1] = TOOL_USE_OPEN


\* the command line of the call, <<>> when the params have none
AskedCommand == CommandOf(approvalCtx.params)

RECURSIVE Concat(_)
Concat(seqs) == IF seqs = <<>> THEN <<>> ELSE Head(seqs) \o Concat(Tail(seqs))

\* what the data lines of a body say, the last line included whether or not
\* a newline follows it
BodyDeltas(bytes) ==
  SelectSeq([i \in 1..Len(SplitLines(bytes)) |-> LineDelta(SplitLines(bytes)[i])],
            LAMBDA d : d # <<>>)

\* C35: when the stream has ended, the text is what the data lines of the
\* body say, in order, however the body was cut into chunks, the last line
\* included when no newline follows it; the onTextDelta arguments are the
\* same pieces.
C35_ChunkingIndependent ==
  pc = "streamed" =>
    /\ streamState.deltas = BodyDeltas(streamBytes)
    /\ streamState.text = Concat(BodyDeltas(streamBytes))

\* the body up to its last newline
RECURSIVE TerminatedPart(_)
TerminatedPart(bytes) ==
  IF bytes = <<>> \/ bytes[Len(bytes)] = NL THEN bytes
  ELSE TerminatedPart(SubSeq(bytes, 1, Len(bytes) - 1))

\* what holds of every chunking: the text is what the lines followed by a
\* newline say
TextOfTerminatedLines ==
  pc = "streamed" =>
    /\ streamState.deltas = BodyDeltas(TerminatedPart(streamBytes))
    /\ streamState.text = Concat(streamState.deltas)


\* C36: the object handed to onTurn in turn k keeps the values it was handed
\* with for the rest of the run.
C36_HandedUsageKept ==
  \A k \in 1..Len(onTurnObjs) : onTurnObjs[k] = onTurnLog[k]


\* the run ended with the error of a broken-off turn
EndedBrokenOff == pc = "done" /\ result.type \in {"api_error", "canceled"}

\* the turn a step that returns from pc breaks off: the check at the top of
\* the loop comes before turnsCount++
BrokenOffTurn == IF pc = "top" THEN turnsCount + 1 ELSE turnsCount

\* C37: a turn that ends in api_error or canceled leaves History as it was:
\* no message of that turn is in it, onTurn was not called for the turn, and
\* the step that observes the abort or the failure hands no further text to
\* onTextDelta.
C37_BrokenOffTurnLeavesHistory ==
  [][(pc # "done" /\ EndedBrokenOff') =>
       /\ history' = history
       /\ \A i \in 1..Len(msgTurn') : msgTurn'[i] # BrokenOffTurn
       /\ Len(onTurnLog') < BrokenOffTurn
       /\ text' = text
       /\ chunksProcessed' = chunksProcessed]_vars

C37_Witness ==
  /\ EndedBrokenOff
  /\ result.type = "canceled"
  /\ turnsCount = 2
  /\ chunksRead > chunksProcessed
  /\ Len(history) = 3
  /\ Len(onTurnLog) = 1


\* C38: only the last block parseMessage returns can be partial: every block
\* before the last one has partial = false.
C38_OnlyLastPartial ==
  pc = "parsed" => \A i \in 1..(Len(parsed) - 1) : ~parsed[i].partial

\* a text, a closed invocation and an unfinished block after them
C38_Witness ==
  /\ pc = "parsed"
  /\ Len(parsed) = 3
  /\ parsed[1].type = "text"
  /\ parsed[2].type = "tool_use"
  /\ parsed[3].partial


\* block i is the first tool_use block of the turn's parsed content
IsFirstToolUseBlock(i) ==
  /\ i \in 1..Len(parsed)
  /\ parsed[i].type = "tool_use"
  /\ \A j \in 1..(i - 1) : parsed[j].type # "tool_use"

\* the tool function was called for block i in this turn
ExecutedBlock(i) ==
  /\ toolLog # <<>>
  /\ toolLog[Len(toolLog)] = [turn |-> turnsCount, name |-> parsed[i].name,
                              callId |-> parsed[i].callId]

\* C39: a truncated tool invocation is treated like a complete one. A turn
\* whose content has a tool_use block, partial or not, with parsed params or
\* with the {_error, _raw} placeholder, never ends the run as a turn without
\* one; the block that goes to onToolUse and approval is the first tool_use
\* block; and the function called after the approval is called for that block.
C39_TruncatedTreatedAsComplete ==
  /\ (pc = "done" /\ result.success) =>
       \A i \in 1..Len(parsed) : parsed[i].type # "tool_use"
  /\ pc \in {"onToolUse", "approve", "denied", "tool", "toolResult"} =>
       \E i \in 1..Len(parsed) : IsFirstToolUseBlock(i)
  /\ pc \in {"tool", "toolResult"} =>
       \E i \in 1..Len(parsed) : IsFirstToolUseBlock(i) /\ ExecutedBlock(i)

\* the function ran for an invocation that was cut off inside its arguments
C39_Witness ==
  /\ pc = "toolResult"
  /\ \E i \in 1..Len(parsed) :
       /\ IsFirstToolUseBlock(i)
       /\ parsed[i].partial
       /\ parsed[i].params.err = "Incomplete JSON"
       /\ ExecutedBlock(i)


\* the tool_use item the History holds
StoredItem == history[1].content[1]

\* the text was parsed into the one tool_use block the item stands for
ParsedBackAs(item) ==
  /\ Len(parsed) = 1
  /\ parsed[1].type = "tool_use"
  /\ parsed[1].name = item.name
  /\ parsed[1].params = item.input
  /\ ~parsed[1].partial

\* C40: for every tool_use item with a tag-free name and a JSON object as
\* input, parseMessage turns the text toApiMessages writes for the item into
\* exactly one tool_use block with the same name, params equal to the input,
\* and partial = false.
C40_HistoryRoundTrip == pc = "parsed" => ParsedBackAs(StoredItem)

\* the items whose name has no blank at either end and whose input has no
\* </arguments> inside a string
PlainItem(item) ==
  /\ Trim(item.name) = item.name
  /\ \A k \in 1..Len(item.input.val) : item.input.val[k] # ARGUMENTS_CLOSE

\* for those items the round trip gives the item back
RoundTripOfPlainItems ==
  (pc = "parsed" /\ PlainItem(StoredItem)) => ParsedBackAs(StoredItem)

\* an item with a plain name whose input holds </arguments> in a string
\* came back with other params
ArgumentsTagCutsInput ==
  /\ pc = "parsed"
  /\ Trim(StoredItem.name) = StoredItem.name
  /\ Len(parsed) = 1
  /\ parsed[1].name = StoredItem.name
  /\ parsed[1].params # StoredItem.input

====
